---- MODULE Spec2Model ----
(***************************************************************************)
(* Model of wayland-pipewire-idle-inhibit.                                 *)
(*                                                                         *)
(* Part I   : the inhibit-state machine (src/inhibit_idle_state.rs), the   *)
(*            timer thread it schedules, the main message queue and the    *)
(*            main loop that feeds it.              Specification: Spec    *)
(* Part II  : the PipeWire graph (src/pipewire_connection/graph/mod.rs)    *)
(*            and its active-sink query.            Specification: GraphSpec*)
(* Part III : direct calls of PWGraph::insert, update and remove with     *)
(*            partial deltas and stored ids.        Specification: ApiSpec *)
(*                                                                         *)
(* Rust Option<T> values are modelled as sets: None is {}, Some(x) is {x}. *)
(***************************************************************************)
EXTENDS Integers, Sequences, FiniteSets, TLC

\* Number of audio-candidate / manual-toggle messages the producers may send.
MaxInputs == 4

None == {}
Some(x) == {x}
is_some(o) == o # {}
unwrap(o) == CHOOSE x \in o : TRUE

VARIABLES
    media_minimum_duration,             \* Settings.media_minimum_duration (i64, seconds)
    inhibit_idle_timout_callback_guard, \* Option<Guard>: Some(t) holds the guard of timer t
    pw_inhibit,
    manual_inhibit,
    is_idle_inhibited,
    queue,                              \* the main message queue (mpsc channel), FIFO
    timers,                             \* timers scheduled on the Timer thread, not fired, not dropped
    next_timer,                         \* identity the next scheduled timer gets
    cancelled,                          \* history: timers whose guard an audio candidate false dropped
    trace,                              \* history: inputs the state machine has handled, in order
    emitted,                            \* history: InhibitIdle messages the state machine has sent
    n_sent,                             \* number of input messages the producers have sent
    graph,                              \* the PWGraph owned by the PipeWire thread
    graph_updated,                      \* a PWEvent::GraphUpdated was sent by a PipeWire handler
    universe,                           \* the ids and payloads the callers of the graph draw from
    last_call,                          \* history: the last direct call on the graph, its arguments and result
    graph_plus,                         \* the graph the same direct calls build under a whitelist with one more filter
    channel,                            \* MessageQueue: the mpsc channel, values sent and not received
    eventfd,                            \* MessageQueue: the counter of the EFD_SEMAPHORE eventfd
    senders,                            \* MessageQueue: the MessageQueueSender clones not dropped
    sender_pc,                          \* MessageQueue: where each sender is in send()
    receiver_pc,                        \* MessageQueue: where the receiver is in recv()
    recv_result,                        \* MessageQueue: Option of what the last recv() returned
    enqueued,                           \* history: the values in the order the channel took them
    received,                           \* history: the values recv() returned, in order
    idle_inhibitor,                     \* the backend (DryRunIdleInhibitor)
    requests,                           \* history: the requests the backend got, TRUE for inhibit()
    pw_channel,                         \* PWThread: the pipewire channel of PWMsg to the PipeWire thread
    main_queue,                         \* PWThread: the mpsc channel of PWEvent to the main loop
    term,                               \* the termination flag the signal handler sets
    main_pc,                            \* where the main thread is: "loop", "wait", "join", "exited"
    worker_pc,                          \* where the PipeWire thread is: "run", "exited", "panicked"
    stale,                              \* history: the graph changed after the last candidate was computed
    computed,                           \* history: the candidates the PipeWire thread computed, in order
    delivered,                          \* history: the candidates the main loop took off its queue, in order
    n_events,                           \* number of PipeWire events dispatched
    backend,                            \* the backend flavor selected at startup
    backend_pc,                         \* the backend: "running", "failed" (a call returned Err), "dropped"
    dbus_idle_inhibitor,                \* the DbusIdleInhibitor
    screensaver,                        \* org.freedesktop.ScreenSaver: the cookies it holds for the process
    wayland_idle_inhibitor,             \* the WaylandIdleInhibitor
    compositor,                         \* the compositor: the live objects the process created on it
    last_op,                            \* history: the last call or event of the backend, its requests and result
    dbus_server                         \* the DBusServer object served on the session bus

smVars == <<media_minimum_duration, inhibit_idle_timout_callback_guard, pw_inhibit,
            manual_inhibit, is_idle_inhibited, queue, timers, next_timer,
            cancelled, trace, emitted, n_sent>>

pwVars == <<graph, graph_updated>>

apiVars == <<universe, last_call, graph_plus>>

mqVars == <<channel, eventfd, senders, sender_pc, receiver_pc, recv_result,
            enqueued, received>>

backendVars == <<idle_inhibitor, requests>>

loopVars == <<pw_channel, main_queue, term, main_pc, worker_pc, stale, computed,
              delivered, n_events>>

hwVars == <<backend, backend_pc, dbus_idle_inhibitor, screensaver,
            wayland_idle_inhibitor, compositor, last_op>>

busVars == <<dbus_server>>

extVars == <<mqVars, backendVars, loopVars, hwVars, busVars>>

vars == <<smVars, pwVars, apiVars, extVars>>

\* Settings: default_media_minimum_duration
default_media_minimum_duration == 5

\* Values of the media_minimum_duration setting that are tried.
DurationValues == {-1, 0, 5}

(***************************************************************************)
(* Settings                                                                *)
(***************************************************************************)
\* Mutant: only a negative duration disables the debounce.
get_media_minimum_duration_ZeroIsSome(d) ==
    IF d < 0 THEN None ELSE Some(d)

get_media_minimum_duration(d) ==
    IF d < 0 THEN None
    ELSE IF d = 0 THEN None
    ELSE Some(d)

(***************************************************************************)
(* Messages of the main queue                                              *)
(***************************************************************************)
MsgInhibitIdle(b)     == [type |-> "InhibitIdle", value |-> b, timer |-> 0]
MsgTimeoutExpired(t)  == [type |-> "TimeoutExpired", value |-> FALSE, timer |-> t]
MsgCandidate(b)       == [type |-> "Candidate", value |-> b, timer |-> 0]
MsgToggleManual       == [type |-> "ToggleManual", value |-> FALSE, timer |-> 0]

\* MessageQueueSender::send: enqueue the payload at the tail of the channel.
send(q, payload) == Append(q, payload)

(***************************************************************************)
(* InhibitIdleState.  The object is a record                               *)
(*   timout  : inhibit_idle_timout (Option<Duration>)                      *)
(*   guard   : inhibit_idle_timout_callback_guard                          *)
(*   pw_inhibit, manual_inhibit, is_idle_inhibited                         *)
(*   out     : messages sent through inhibit_idle_callback by the call     *)
(*   started : timers scheduled by the call                                *)
(*   dropped : guards dropped by the call                                  *)
(*   fresh   : identity a timer scheduled by the call gets                 *)
(***************************************************************************)
\* Mutant: the comparison with the stored value is lost.
update_is_idle_inhibited_AlwaysEmit(self, new_value, force_emit) ==
    [self EXCEPT !.is_idle_inhibited = new_value,
                 !.out = send(@, MsgInhibitIdle(new_value))]

update_is_idle_inhibited(self, new_value, force_emit) ==
    IF ~force_emit /\ self.is_idle_inhibited = new_value
    THEN self
    ELSE [self EXCEPT !.is_idle_inhibited = new_value,
                      !.out = send(@, MsgInhibitIdle(new_value))]

reevaluate_effective_state(self, force_emit) ==
    update_is_idle_inhibited(self, self.pw_inhibit \/ self.manual_inhibit, force_emit)

\* Mutant: the manual change is re-evaluated without forcing the emission.
set_manual_inhibit_NotForced(self, value) ==
    reevaluate_effective_state([self EXCEPT !.manual_inhibit = value], FALSE)

set_manual_inhibit(self, value) ==
    reevaluate_effective_state([self EXCEPT !.manual_inhibit = value], TRUE)

\* Mutant: the expiry locks the audio inhibit but does not re-evaluate.
handle_timeout_NoReevaluate(self) ==
    IF is_some(self.guard)
    THEN [self EXCEPT !.dropped = @ \cup self.guard,
                      !.guard = None,
                      !.pw_inhibit = TRUE]
    ELSE self

handle_timeout(self) ==
    IF is_some(self.guard)
    THEN reevaluate_effective_state(
             [self EXCEPT !.dropped = @ \cup self.guard,
                          !.guard = None,
                          !.pw_inhibit = TRUE], FALSE)
    ELSE self

\* Mutant: a candidate false leaves the pending timer's guard in place.
set_is_idle_inhibited_KeepsGuard(self, value) ==
    IF is_some(self.timout) /\ value
    THEN IF self.pw_inhibit THEN self
         ELSE IF is_some(self.guard) THEN self
         ELSE [self EXCEPT !.guard = Some(self.fresh),
                           !.started = @ \cup {self.fresh}]
    ELSE reevaluate_effective_state([self EXCEPT !.pw_inhibit = value], FALSE)

\* Mutant: the minimum duration is ignored, every candidate applies at once.
set_is_idle_inhibited_NoDebounce(self, value) ==
    reevaluate_effective_state(
        [self EXCEPT !.dropped = @ \cup self.guard,
                     !.guard = None,
                     !.pw_inhibit = value], FALSE)

\* Mutant: the debounce branch is taken for every candidate, true or false,
\* when a minimum duration is configured.
set_is_idle_inhibited_DebouncesFalse(self, value) ==
    IF is_some(self.timout)
    THEN IF self.pw_inhibit THEN self
         ELSE IF is_some(self.guard) THEN self
         ELSE [self EXCEPT !.guard = Some(self.fresh),
                           !.started = @ \cup {self.fresh}]
    ELSE reevaluate_effective_state(
             [self EXCEPT !.dropped = @ \cup self.guard,
                          !.guard = None,
                          !.pw_inhibit = value], FALSE)

\* Mutant: the immediate branch forces the emission as a manual change does.
set_is_idle_inhibited_ForcesEmit(self, value) ==
    IF is_some(self.timout) /\ value
    THEN IF self.pw_inhibit THEN self
         ELSE IF is_some(self.guard) THEN self
         ELSE [self EXCEPT !.guard = Some(self.fresh),
                           !.started = @ \cup {self.fresh}]
    ELSE reevaluate_effective_state(
             [self EXCEPT !.dropped = @ \cup self.guard,
                          !.guard = None,
                          !.pw_inhibit = value], TRUE)

\* Mutant: a candidate true restarts the pending timer.
set_is_idle_inhibited_Restarts(self, value) ==
    IF is_some(self.timout) /\ value
    THEN IF self.pw_inhibit THEN self
         ELSE [self EXCEPT !.dropped = @ \cup self.guard,
                           !.guard = Some(self.fresh),
                           !.started = @ \cup {self.fresh}]
    ELSE reevaluate_effective_state(
             [self EXCEPT !.dropped = @ \cup self.guard,
                          !.guard = None,
                          !.pw_inhibit = value], FALSE)

set_is_idle_inhibited(self, value) ==
    IF is_some(self.timout) /\ value
    THEN IF self.pw_inhibit THEN self
         ELSE IF is_some(self.guard) THEN self
         ELSE [self EXCEPT !.guard = Some(self.fresh),
                           !.started = @ \cup {self.fresh}]
    ELSE reevaluate_effective_state(
             [self EXCEPT !.dropped = @ \cup self.guard,
                          !.guard = None,
                          !.pw_inhibit = value], FALSE)

\* The object as the main loop sees it before a call.
Self ==
    [timout |-> get_media_minimum_duration(media_minimum_duration),
     guard |-> inhibit_idle_timout_callback_guard,
     pw_inhibit |-> pw_inhibit,
     manual_inhibit |-> manual_inhibit,
     is_idle_inhibited |-> is_idle_inhibited,
     out |-> <<>>,
     started |-> {},
     dropped |-> {},
     fresh |-> next_timer]

\* History record of one emission.
Emission(msg, cause, prev, at) ==
    [value |-> msg.value, cause |-> cause, prev |-> prev, at |-> at]

\* Store the object after a call made while handling `input` (one of "T", "F",
\* "X", "M": candidate true, candidate false, TimeoutExpired, ToggleManual);
\* the head of the queue is consumed, the messages the call sent are enqueued.
Commit(after, input, cause) ==
    /\ inhibit_idle_timout_callback_guard' = after.guard
    /\ pw_inhibit' = after.pw_inhibit
    /\ manual_inhibit' = after.manual_inhibit
    /\ is_idle_inhibited' = after.is_idle_inhibited
    /\ queue' = Tail(queue) \o after.out
    /\ timers' = (timers \cup after.started) \ after.dropped
    /\ next_timer' = IF after.started = {} THEN next_timer ELSE next_timer + 1
    /\ trace' = Append(trace, input)
    /\ emitted' = emitted \o
          [i \in 1..Len(after.out) |->
              Emission(after.out[i], cause, is_idle_inhibited, Len(trace) + 1)]
    /\ UNCHANGED <<media_minimum_duration, n_sent, pwVars, apiVars, extVars>>

(***************************************************************************)
(* Producers of the main queue                                             *)
(***************************************************************************)
\* The PipeWire thread reports whether some sink is active.
PWSendCandidate ==
    /\ n_sent < MaxInputs
    /\ \E b \in BOOLEAN : queue' = send(queue, MsgCandidate(b))
    /\ n_sent' = n_sent + 1
    /\ UNCHANGED <<media_minimum_duration, inhibit_idle_timout_callback_guard,
                   pw_inhibit, manual_inhibit, is_idle_inhibited, timers,
                   next_timer, cancelled, trace, emitted, pwVars, apiVars, extVars>>

\* DbusService::toggle_manual
DBusToggleManual ==
    /\ n_sent < MaxInputs
    /\ queue' = send(queue, MsgToggleManual)
    /\ n_sent' = n_sent + 1
    /\ UNCHANGED <<media_minimum_duration, inhibit_idle_timout_callback_guard,
                   pw_inhibit, manual_inhibit, is_idle_inhibited, timers,
                   next_timer, cancelled, trace, emitted, pwVars, apiVars, extVars>>

\* The Timer thread runs the callback of a timer whose guard is still held.
TimerFire ==
    /\ \E t \in timers :
          /\ queue' = send(queue, MsgTimeoutExpired(t))
          /\ timers' = timers \ {t}
    /\ UNCHANGED <<media_minimum_duration, inhibit_idle_timout_callback_guard,
                   pw_inhibit, manual_inhibit, is_idle_inhibited,
                   next_timer, cancelled, trace, emitted, n_sent, pwVars, apiVars, extVars>>

(***************************************************************************)
(* Main loop: one message of the main queue per iteration                  *)
(***************************************************************************)
MainCandidate ==
    /\ queue # <<>>
    /\ Head(queue).type = "Candidate"
    /\ LET value == Head(queue).value
           after == set_is_idle_inhibited(Self, value)
       IN  /\ Commit(after, IF value THEN "T" ELSE "F", "candidate")
           /\ cancelled' = cancelled \cup after.dropped

MainTimeoutExpired ==
    /\ queue # <<>>
    /\ Head(queue).type = "TimeoutExpired"
    /\ Commit(handle_timeout(Self), "X", "timeout")
    /\ UNCHANGED cancelled

MainToggleManual ==
    /\ queue # <<>>
    /\ Head(queue).type = "ToggleManual"
    /\ Commit(set_manual_inhibit(Self, ~manual_inhibit), "M", "manual")
    /\ UNCHANGED cancelled

(***************************************************************************)
(* The idle-inhibitor backend                                              *)
(***************************************************************************)
\* DryRunIdleInhibitor::default
DryRunIdleInhibitor_default == [is_idle_inhibited |-> FALSE]

\* IdleInhibitor::inhibit: does nothing if idle is already inhibited.
inhibit(self) ==
    IF ~self.is_idle_inhibited THEN [self EXCEPT !.is_idle_inhibited = TRUE]
    ELSE self

\* Mutant: uninhibit leaves the inhibitor as it is.
uninhibit_DoesNothing(self) == self

\* IdleInhibitor::uninhibit: does nothing if idle is not inhibited.
uninhibit(self) ==
    IF self.is_idle_inhibited THEN [self EXCEPT !.is_idle_inhibited = FALSE]
    ELSE self

\* The effective state is handed to the idle-inhibitor backend.
MainInhibitIdle ==
    /\ queue # <<>>
    /\ Head(queue).type = "InhibitIdle"
    /\ queue' = Tail(queue)
    /\ idle_inhibitor' = IF Head(queue).value THEN inhibit(idle_inhibitor)
                                              ELSE uninhibit(idle_inhibitor)
    /\ requests' = Append(requests, Head(queue).value)
    /\ UNCHANGED <<media_minimum_duration, inhibit_idle_timout_callback_guard,
                   pw_inhibit, manual_inhibit, is_idle_inhibited, timers,
                   next_timer, cancelled, trace, emitted, n_sent, pwVars, apiVars, mqVars,
                   loopVars, hwVars, busVars>>

(***************************************************************************)
(* Part II.  Strings, regular expressions and filters                      *)
(*                                                                         *)
(* A string is the sequence of its characters.  A Regex is modelled for    *)
(* the patterns "lit", "^lit", "lit$" and "^lit$" as a record              *)
(* [from_start, to_end, lit].                                              *)
(***************************************************************************)
Str_AudioSink    == <<"A","u","d","i","o","/","S","i","n","k">>
Str_StreamOutput == <<"S","t","r","e","a","m","/","O","u","t">>
Str_Sink         == <<"S","i","n","k">>
Str_browser      == <<"b","r","o","w","s","e","r">>
Str_mpv          == <<"m","p","v">>
Str_Speakers     == <<"S","p","e","a","k","e","r","s">>
Str_Music        == <<"M","u","s","i","c">>

\* str::contains
contains(s, pat) ==
    \E i \in 0..(Len(s) - Len(pat)) : SubSeq(s, i + 1, i + Len(pat)) = pat

\* Regex::is_match
is_match(re, s) ==
    IF re.from_start /\ re.to_end THEN s = re.lit
    ELSE IF re.from_start THEN
        Len(s) >= Len(re.lit) /\ SubSeq(s, 1, Len(re.lit)) = re.lit
    ELSE IF re.to_end THEN
        Len(s) >= Len(re.lit) /\ SubSeq(s, Len(s) - Len(re.lit) + 1, Len(s)) = re.lit
    ELSE contains(s, re.lit)

\* NodeData::get_name
get_name(node) ==
    IF is_some(node.description) THEN node.description
    ELSE IF is_some(node.nick) THEN node.nick
    ELSE node.name

\* Mutant: a defined filter field accepts a node without the attribute.
matches_property_AbsentIsTrue(filter, property) ==
    IF filter = None THEN TRUE
    ELSE IF property = None THEN TRUE
    ELSE is_match(unwrap(filter), unwrap(property))

\* matches_property: None filter is true, Some filter on None property false.
matches_property(filter, property) ==
    IF filter = None THEN TRUE
    ELSE IF property = None THEN FALSE
    ELSE is_match(unwrap(filter), unwrap(property))

SinkFilter_matches(f, node) ==
    matches_property(f.name, get_name(node))

NodeFilter_matches(f, node) ==
    /\ matches_property(f.name, get_name(node))
    /\ matches_property(f.app_name, node.app_name)
    /\ matches_property(f.media_class, node.media_class)
    /\ matches_property(f.media_role, node.media_role)
    /\ matches_property(f.media_software, node.media_software)

\* Mutant: every filter of the list has to match.
SinkFilter_matches_any_EveryFilter(filters, node) ==
    \A i \in 1..Len(filters) : SinkFilter_matches(filters[i], node)

\* Filter::matches_any, for a Vec<SinkFilter> and a Vec<NodeFilter>
SinkFilter_matches_any(filters, node) ==
    \E i \in 1..Len(filters) : SinkFilter_matches(filters[i], node)

\* Mutant: every filter of the list has to match.
NodeFilter_matches_any_EveryFilter(filters, node) ==
    \A i \in 1..Len(filters) : NodeFilter_matches(filters[i], node)

NodeFilter_matches_any(filters, node) ==
    \E i \in 1..Len(filters) : NodeFilter_matches(filters[i], node)

(***************************************************************************)
(* Graph objects                                                           *)
(***************************************************************************)
NodeData(name, app_name, description, nick, media_class, media_role, media_software) ==
    [name |-> name, app_name |-> app_name, description |-> description,
     nick |-> nick, media_class |-> media_class, media_role |-> media_role,
     media_software |-> media_software]

PortData(name, node_id, direction, is_terminal) ==
    [name |-> name, node_id |-> node_id, direction |-> direction,
     is_terminal |-> is_terminal]

LinkData(input_port, output_port, active) ==
    [input_port |-> input_port, output_port |-> output_port, active |-> active]

PWObject_Node(data) == [kind |-> "Node", data |-> data]
PWObject_Port(data) == [kind |-> "Port", data |-> data]
PWObject_Link(data) == [kind |-> "Link", data |-> data]

\* Mutant: the field of the delta replaces the old one also when it is None.
merge_Overwrites(old, new) == new

\* Option::or on the new value: a Some field of the delta replaces the old one.
merge(old, new) == IF is_some(new) THEN new ELSE old

NodeData_update(self, new) ==
    [name |-> merge(self.name, new.name),
     app_name |-> merge(self.app_name, new.app_name),
     description |-> merge(self.description, new.description),
     nick |-> merge(self.nick, new.nick),
     media_class |-> merge(self.media_class, new.media_class),
     media_role |-> merge(self.media_role, new.media_role),
     media_software |-> merge(self.media_software, new.media_software)]

PortData_update(self, new) ==
    [name |-> merge(self.name, new.name),
     node_id |-> merge(self.node_id, new.node_id),
     direction |-> merge(self.direction, new.direction),
     is_terminal |-> merge(self.is_terminal, new.is_terminal)]

LinkData_update(self, new) ==
    [input_port |-> merge(self.input_port, new.input_port),
     output_port |-> merge(self.output_port, new.output_port),
     active |-> merge(self.active, new.active)]

(***************************************************************************)
(* HashMap<Id, V> is a function whose domain is the set of keys present.   *)
(***************************************************************************)
EmptyMap == [k \in {} |-> {}]

\* HashMap::get
map_get(m, k) == IF k \in DOMAIN m THEN Some(m[k]) ELSE None

\* HashMap::insert
map_insert(m, k, v) == [x \in DOMAIN m \cup {k} |-> IF x = k THEN v ELSE m[x]]

\* HashMap::remove
map_remove(m, k) == [x \in DOMAIN m \ {k} |-> m[x]]

\* m.entry(k).or_default().insert(v)
entry_insert(m, k, v) ==
    [x \in DOMAIN m \cup {k} |->
        IF x = k THEN (IF k \in DOMAIN m THEN m[k] ELSE {}) \cup {v} ELSE m[x]]

\* m.entry(k).or_default().remove(&v)
entry_remove(m, k, v) ==
    [x \in DOMAIN m \cup {k} |->
        IF x = k THEN (IF k \in DOMAIN m THEN m[k] ELSE {}) \ {v} ELSE m[x]]

(***************************************************************************)
(* PWGraph                                                                 *)
(***************************************************************************)
PWGraph_new(sink_whitelist, node_blacklist) ==
    [objects |-> EmptyMap,
     sinks |-> {},
     links_to_port |-> EmptyMap,
     links_from_port |-> EmptyMap,
     node_input_ports |-> EmptyMap,
     node_output_ports |-> EmptyMap,
     sink_whitelist |-> sink_whitelist,
     node_blacklist |-> node_blacklist]

\* The sink rule of insert and update: media_class contains "Sink" and the
\* whitelist is empty or matches.
is_sink(g, media_class, data) ==
    /\ contains(media_class, Str_Sink)
    /\ (g.sink_whitelist = <<>> \/ SinkFilter_matches_any(g.sink_whitelist, data))

insert_index(g, id, obj) ==
    IF obj.kind = "Node" THEN
        IF is_some(obj.data.media_class) /\ is_sink(g, unwrap(obj.data.media_class), obj.data)
        THEN [g EXCEPT !.sinks = @ \cup {id}]
        ELSE g
    ELSE IF obj.kind = "Port" THEN
        IF is_some(obj.data.node_id) /\ is_some(obj.data.direction)
        THEN IF unwrap(obj.data.direction) = "Input"
             THEN [g EXCEPT !.node_input_ports =
                                entry_insert(@, unwrap(obj.data.node_id), id)]
             ELSE [g EXCEPT !.node_output_ports =
                                entry_insert(@, unwrap(obj.data.node_id), id)]
        ELSE g
    ELSE
        LET g1 == IF is_some(obj.data.output_port)
                  THEN [g EXCEPT !.links_from_port =
                                     entry_insert(@, unwrap(obj.data.output_port), id)]
                  ELSE g
        IN  IF is_some(obj.data.input_port)
            THEN [g1 EXCEPT !.links_to_port =
                                entry_insert(@, unwrap(obj.data.input_port), id)]
            ELSE g1

\* Mutant: a port is indexed only when its node is already stored.
insert_NodeFirst(g, id, obj) ==
    IF /\ obj.kind = "Port"
       /\ is_some(obj.data.node_id)
       /\ unwrap(obj.data.node_id) \notin DOMAIN g.objects
    THEN [g EXCEPT !.objects = map_insert(@, id, obj)]
    ELSE [insert_index(g, id, obj) EXCEPT !.objects = map_insert(@, id, obj)]

insert(g, id, obj) ==
    [insert_index(g, id, obj) EXCEPT !.objects = map_insert(@, id, obj)]

update_node(g, id, data, new_data) ==
    LET g1 == IF data.media_class # new_data.media_class /\ is_some(new_data.media_class)
              THEN LET g0 == IF is_some(data.media_class)
                                  /\ contains(unwrap(data.media_class), Str_Sink)
                             THEN [g EXCEPT !.sinks = @ \ {id}]
                             ELSE g
                   IN  IF is_sink(g, unwrap(new_data.media_class), new_data)
                       THEN [g0 EXCEPT !.sinks = @ \cup {id}]
                       ELSE g0
              ELSE g
    IN  [g1 EXCEPT !.objects =
            map_insert(@, id, PWObject_Node(NodeData_update(data, new_data)))]

update_port(g, id, data, new_data) ==
    LET g1 == IF (data.node_id # new_data.node_id \/ data.direction # new_data.direction)
                 /\ is_some(new_data.node_id) /\ is_some(new_data.direction)
              THEN LET g0 == IF is_some(data.node_id) /\ is_some(data.direction)
                             THEN IF unwrap(data.direction) = "Input"
                                  THEN [g EXCEPT !.node_input_ports =
                                           entry_remove(@, unwrap(data.node_id), id)]
                                  ELSE [g EXCEPT !.node_output_ports =
                                           entry_remove(@, unwrap(data.node_id), id)]
                             ELSE g
                   IN  IF unwrap(new_data.direction) = "Input"
                       THEN [g0 EXCEPT !.node_input_ports =
                                entry_insert(@, unwrap(new_data.node_id), id)]
                       ELSE [g0 EXCEPT !.node_output_ports =
                                entry_insert(@, unwrap(new_data.node_id), id)]
              ELSE g
    IN  [g1 EXCEPT !.objects =
            map_insert(@, id, PWObject_Port(PortData_update(data, new_data)))]

update_link(g, id, data, new_data) ==
    LET g1 == IF data.output_port # new_data.output_port /\ is_some(new_data.output_port)
              THEN LET g0 == IF is_some(data.output_port)
                             THEN [g EXCEPT !.links_from_port =
                                      entry_remove(@, unwrap(data.output_port), id)]
                             ELSE g
                   IN  [g0 EXCEPT !.links_from_port =
                           entry_insert(@, unwrap(new_data.output_port), id)]
              ELSE g
        g2 == IF data.input_port # new_data.input_port /\ is_some(new_data.input_port)
              THEN LET g0 == IF is_some(data.input_port)
                             THEN [g1 EXCEPT !.links_to_port =
                                      entry_remove(@, unwrap(data.input_port), id)]
                             ELSE g1
                   IN  [g0 EXCEPT !.links_to_port =
                           entry_insert(@, unwrap(new_data.input_port), id)]
              ELSE g1
    IN  [g2 EXCEPT !.objects =
            map_insert(@, id, PWObject_Link(LinkData_update(data, new_data)))]

\* Mutant: update of an id that is not stored stores the delta as a new object.
update_InsertsMissing(g, id, new_data) ==
    IF id \notin DOMAIN g.objects THEN insert(g, id, new_data)
    ELSE IF g.objects[id].kind # new_data.kind THEN g
    ELSE IF new_data.kind = "Node" THEN update_node(g, id, g.objects[id].data, new_data.data)
    ELSE IF new_data.kind = "Port" THEN update_port(g, id, g.objects[id].data, new_data.data)
    ELSE update_link(g, id, g.objects[id].data, new_data.data)

\* PWGraph::update, the graph it leaves; new_data is a PWObjectData, modelled
\* as [kind, data] like a PWObject.
update(g, id, new_data) ==
    IF id \notin DOMAIN g.objects THEN g
    ELSE IF g.objects[id].kind # new_data.kind THEN g
    ELSE IF new_data.kind = "Node" THEN update_node(g, id, g.objects[id].data, new_data.data)
    ELSE IF new_data.kind = "Port" THEN update_port(g, id, g.objects[id].data, new_data.data)
    ELSE update_link(g, id, g.objects[id].data, new_data.data)

remove_index(g, id, obj) ==
    IF obj.kind = "Node" THEN
        IF is_some(obj.data.media_class) /\ contains(unwrap(obj.data.media_class), Str_Sink)
        THEN [g EXCEPT !.sinks = @ \ {id}]
        ELSE g
    ELSE IF obj.kind = "Port" THEN
        IF is_some(obj.data.node_id) /\ is_some(obj.data.direction)
        THEN IF unwrap(obj.data.direction) = "Input"
             THEN [g EXCEPT !.node_input_ports =
                                entry_remove(@, unwrap(obj.data.node_id), id)]
             ELSE [g EXCEPT !.node_output_ports =
                                entry_remove(@, unwrap(obj.data.node_id), id)]
        ELSE g
    ELSE
        LET g1 == IF is_some(obj.data.output_port)
                  THEN [g EXCEPT !.links_from_port =
                                     entry_remove(@, unwrap(obj.data.output_port), id)]
                  ELSE g
        IN  IF is_some(obj.data.input_port)
            THEN [g1 EXCEPT !.links_to_port =
                                entry_remove(@, unwrap(obj.data.input_port), id)]
            ELSE g1

remove(g, id) ==
    IF id \notin DOMAIN g.objects THEN g
    ELSE remove_index([g EXCEPT !.objects = map_remove(@, id)], id, g.objects[id])

(***************************************************************************)
(* The active-sink query.  A HashSet is iterated in an unspecified order,  *)
(* so check_node_active yields the set of its possible outcomes            *)
(* [result, visited, trail], one for every iteration order; trail lists    *)
(* the ids check_node_active was entered with, in the order of the calls.  *)
(***************************************************************************)
Outcome(result, visited, trail) ==
    [result |-> result, visited |-> visited, trail |-> trail]

\* The outcomes of a continuation that ran after the calls of trail.
after_calls(trail, outcomes) ==
    { [o EXCEPT !.trail = trail \o @] : o \in outcomes }

\* Mutant: a link without the active field counts as active.
links_to_node_CountsMissingActive(g, node_input_ports) ==
    { <<link, unwrap(g.objects[link].data.output_port)>> :
        link \in { l \in UNION { IF port \in DOMAIN g.objects
                                    /\ g.objects[port].kind = "Port"
                                    /\ port \in DOMAIN g.links_to_port
                                 THEN g.links_to_port[port]
                                 ELSE {} : port \in node_input_ports } :
                     /\ l \in DOMAIN g.objects
                     /\ g.objects[l].kind = "Link"
                     /\ g.objects[l].data.active # Some(FALSE)
                     /\ is_some(g.objects[l].data.output_port) } }

\* The (link, output_port) pairs collected from the node's input ports.
links_to_node(g, node_input_ports) ==
    { <<link, unwrap(g.objects[link].data.output_port)>> :
        link \in { l \in UNION { IF port \in DOMAIN g.objects
                                    /\ g.objects[port].kind = "Port"
                                    /\ port \in DOMAIN g.links_to_port
                                 THEN g.links_to_port[port]
                                 ELSE {} : port \in node_input_ports } :
                     /\ l \in DOMAIN g.objects
                     /\ g.objects[l].kind = "Link"
                     /\ g.objects[l].data.active = Some(TRUE)
                     /\ is_some(g.objects[l].data.output_port) } }

RECURSIVE check_node_active(_, _, _)
RECURSIVE visit_links(_, _, _)

\* Mutant: the result of the first unvisited upstream node is returned as the
\* node's own result, the remaining links are not tried.
visit_links_ReturnsFirst(g, remaining, visited) ==
    IF remaining = {} THEN {Outcome(FALSE, visited, <<>>)}
    ELSE UNION {
        LET rest == remaining \ {pair}
            port == map_get(g.objects, pair[2])
        IN  IF port = None \/ unwrap(port).kind # "Port"
            THEN visit_links(g, rest, visited)
            ELSE IF unwrap(port).data.node_id = None
            THEN visit_links(g, rest, visited)
            ELSE IF unwrap(unwrap(port).data.node_id) \in visited
            THEN visit_links(g, rest, visited)
            ELSE check_node_active(g, unwrap(unwrap(port).data.node_id), visited)
        : pair \in remaining }

\* Mutant: the nodes a failed branch visited are forgotten when the loop goes
\* on to the next link.
visit_links_ForgetsVisited(g, remaining, visited) ==
    IF remaining = {} THEN {Outcome(FALSE, visited, <<>>)}
    ELSE UNION {
        LET rest == remaining \ {pair}
            port == map_get(g.objects, pair[2])
        IN  IF port = None \/ unwrap(port).kind # "Port"
            THEN visit_links(g, rest, visited)
            ELSE IF unwrap(port).data.node_id = None
            THEN visit_links(g, rest, visited)
            ELSE IF unwrap(unwrap(port).data.node_id) \in visited
            THEN visit_links(g, rest, visited)
            ELSE UNION { IF o.result THEN {o}
                         ELSE after_calls(o.trail, visit_links(g, rest, visited))
                         : o \in check_node_active(g, unwrap(unwrap(port).data.node_id),
                                                   visited) }
        : pair \in remaining }

\* The final loop of check_node_active over links_to_node.
visit_links(g, remaining, visited) ==
    IF remaining = {} THEN {Outcome(FALSE, visited, <<>>)}
    ELSE UNION {
        LET rest == remaining \ {pair}
            port == map_get(g.objects, pair[2])
        IN  IF port = None \/ unwrap(port).kind # "Port"
            THEN visit_links(g, rest, visited)
            ELSE IF unwrap(port).data.node_id = None
            THEN visit_links(g, rest, visited)
            ELSE IF unwrap(unwrap(port).data.node_id) \in visited
            THEN visit_links(g, rest, visited)
            ELSE UNION { IF o.result THEN {o}
                         ELSE after_calls(o.trail, visit_links(g, rest, o.visited))
                         : o \in check_node_active(g, unwrap(unwrap(port).data.node_id),
                                                   visited) }
        : pair \in remaining }

\* Mutant: the node blacklist is not consulted.
check_node_active_IgnoresBlacklist(g, id, visited0) ==
    LET visited == visited0 \cup {id}
        obj == map_get(g.objects, id)
    IN  IF obj = None THEN {Outcome(FALSE, visited, <<id>>)}
        ELSE IF unwrap(obj).kind # "Node" THEN {Outcome(FALSE, visited, <<id>>)}
        ELSE LET node_input_ports == map_get(g.node_input_ports, id)
             IN  IF node_input_ports = None THEN {Outcome(TRUE, visited, <<id>>)}
                 ELSE IF unwrap(node_input_ports) = {} THEN {Outcome(TRUE, visited, <<id>>)}
                 ELSE LET links == links_to_node(g, unwrap(node_input_ports))
                      IN  IF links = {} THEN {Outcome(FALSE, visited, <<id>>)}
                          ELSE after_calls(<<id>>, visit_links(g, links, visited))

check_node_active(g, id, visited0) ==
    LET visited == visited0 \cup {id}
        obj == map_get(g.objects, id)
    IN  IF obj = None THEN {Outcome(FALSE, visited, <<id>>)}
        ELSE IF unwrap(obj).kind # "Node" THEN {Outcome(FALSE, visited, <<id>>)}
        ELSE IF NodeFilter_matches_any(g.node_blacklist, unwrap(obj).data)
        THEN {Outcome(FALSE, visited, <<id>>)}
        ELSE LET node_input_ports == map_get(g.node_input_ports, id)
             IN  IF node_input_ports = None THEN {Outcome(TRUE, visited, <<id>>)}
                 ELSE IF unwrap(node_input_ports) = {} THEN {Outcome(TRUE, visited, <<id>>)}
                 ELSE LET links == links_to_node(g, unwrap(node_input_ports))
                      IN  IF links = {} THEN {Outcome(FALSE, visited, <<id>>)}
                          ELSE after_calls(<<id>>, visit_links(g, links, visited))

\* PWGraph::get_active_sinks: the set of the sets it can return.
get_active_sinks(g) ==
    { active \in SUBSET g.sinks :
        \A sink \in g.sinks :
            \E o \in check_node_active(g, sink, {}) : o.result = (sink \in active) }

(***************************************************************************)
(* Direct calls on the graph: the return value of update and the record    *)
(* of a call.                                                              *)
(***************************************************************************)
\* PWObjectData::is_empty: every field of the delta is None.
is_empty(new_data) ==
    \A f \in DOMAIN new_data.data : new_data.data[f] = None

\* The value PWGraph::update returns (pipewire_connection/graph.rs): false for
\* a missing id, an empty delta, a kind mismatch and a delta equal to the
\* stored data, true otherwise.
update_returns(g, id, new_data) ==
    IF id \notin DOMAIN g.objects THEN FALSE
    ELSE IF is_empty(new_data) THEN FALSE
    ELSE IF g.objects[id].kind # new_data.kind THEN FALSE
    ELSE IF new_data.data = g.objects[id].data THEN FALSE
    ELSE TRUE

\* The record of a call: operation, arguments, the graph before it and the
\* value it returned.
Call(op, id, arg, before, returned) ==
    [op |-> op, id |-> id, arg |-> arg, before |-> before, returned |-> returned]

NoCall == Call("none", 0, None, PWGraph_new(<<>>, <<>>), None)

(***************************************************************************)
(* The message queue: an mpsc channel paired with an eventfd.              *)
(***************************************************************************)
\* The threads that hold a clone of the MessageQueueSender.
Senders == {"pipewire", "timer"}

\* Values one sender sends in a run.
MaxSends == 2

Ok(payload) == [ok |-> TRUE, payload |-> payload]
Err == [ok |-> FALSE]

\* mpsc::Sender::send: the value joins the end of the channel.
mpsc_send(ch, payload) == Append(ch, payload)

\* Mutant: the receiver takes the newest value.
mpsc_recv_TakesLast(ch) ==
    [payload |-> ch[Len(ch)], rest |-> SubSeq(ch, 1, Len(ch) - 1)]

\* mpsc::Receiver::recv on a channel that is not empty: the oldest value.
mpsc_recv(ch) == [payload |-> Head(ch), rest |-> Tail(ch)]

\* message_queue(): an empty channel, an eventfd with counter 0, one sender
\* clone per thread.
MessageQueue_new ==
    /\ channel = <<>>
    /\ eventfd = 0
    /\ senders = Senders
    /\ sender_pc = [s \in Senders |-> "idle"]
    /\ receiver_pc = "idle"
    /\ recv_result = None
    /\ enqueued = <<>>
    /\ received = <<>>

(***************************************************************************)
(* The PipeWire thread and the main loop around it.                        *)
(***************************************************************************)
\* PWThread::new: both channels empty, both threads running.
PWThread_new ==
    /\ pw_channel = <<>>
    /\ main_queue = <<>>
    /\ term = FALSE
    /\ main_pc = "loop"
    /\ worker_pc = "run"
    /\ stale = FALSE
    /\ computed = <<>>
    /\ delivered = <<>>
    /\ n_events = 0

\* PWMsg and PWEvent
PWMsg_Terminate == [type |-> "Terminate"]
PWMsg_GraphUpdated == [type |-> "GraphUpdated"]
PWEvent_GraphUpdated == [type |-> "GraphUpdated"]
PWEvent_InhibitIdleState(b) == [type |-> "InhibitIdleState", value |-> b]

\* Mutant: the candidate says whether a sink exists.
should_inhibit_idle_AnySink(g) == { g.sinks # {} }

\* !graph.get_active_sinks().is_empty(): the values it can have.
should_inhibit_idle(g) == { active # {} : active \in get_active_sinks(g) }

\* Mutant: Terminate is ignored.
mainloop_quit_KeepsRunning(pc) == pc

\* mainloop.quit(): mainloop.run() returns and pw_thread ends.
mainloop_quit(pc) == "exited"

(***************************************************************************)
(* The inhibit backends (src/idle_inhibitor): the screensaver bus and the  *)
(* compositor.  An operator takes the backend and the service it talks to  *)
(* and gives both after the call, with the requests the call sent.         *)
(***************************************************************************)
\* A request the process sends to the screensaver service or the compositor.
Req(name, arg) == [req |-> name, arg |-> arg]

\* The record of a call or a handled event: its name, the backend before it,
\* the requests it sent and the Result it returned.
Op(name, before, sent, result) ==
    [op |-> name, before |-> before, requests |-> sent, result |-> result]

\* The cookies org.freedesktop.ScreenSaver answers Inhibit with.
Cookies == {1, 2}

\* DbusIdleInhibitor after new(): the self-test inhibit()?, uninhibit()? left
\* no cookie.
DbusIdleInhibitor_new == [cookie |-> None]

\* Mutant: Inhibit is called also when a cookie is stored.
DbusIdleInhibitor_inhibit_NoCheck(self, held, reply) ==
    IF reply.ok
    THEN [self |-> [self EXCEPT !.cookie = Some(reply.payload)],
          held |-> held \cup {reply.payload},
          requests |-> <<Req("Inhibit", 0)>>, result |-> Ok(0)]
    ELSE [self |-> self, held |-> held,
          requests |-> <<Req("Inhibit", 0)>>, result |-> Err]

\* DbusIdleInhibitor::inhibit.  reply is what the service answers, held the
\* cookies the service holds; a failed call changes nothing at the service.
DbusIdleInhibitor_inhibit(self, held, reply) ==
    IF self.cookie = None
    THEN IF reply.ok
         THEN [self |-> [self EXCEPT !.cookie = Some(reply.payload)],
               held |-> held \cup {reply.payload},
               requests |-> <<Req("Inhibit", 0)>>, result |-> Ok(0)]
         ELSE [self |-> self, held |-> held,
               requests |-> <<Req("Inhibit", 0)>>, result |-> Err]
    ELSE [self |-> self, held |-> held, requests |-> <<>>, result |-> Ok(0)]

\* Mutant: the cookie is forgotten before the call is known to have worked.
DbusIdleInhibitor_uninhibit_ForgetsFirst(self, held, reply) ==
    IF self.cookie # None
    THEN [self |-> [self EXCEPT !.cookie = None],
          held |-> IF reply.ok THEN held \ self.cookie ELSE held,
          requests |-> <<Req("UnInhibit", unwrap(self.cookie))>>,
          result |-> IF reply.ok THEN Ok(0) ELSE Err]
    ELSE [self |-> self, held |-> held, requests |-> <<>>, result |-> Ok(0)]

\* DbusIdleInhibitor::uninhibit
DbusIdleInhibitor_uninhibit(self, held, reply) ==
    IF self.cookie # None
    THEN IF reply.ok
         THEN [self |-> [self EXCEPT !.cookie = None],
               held |-> held \ self.cookie,
               requests |-> <<Req("UnInhibit", unwrap(self.cookie))>>,
               result |-> Ok(0)]
         ELSE [self |-> self, held |-> held,
               requests |-> <<Req("UnInhibit", unwrap(self.cookie))>>,
               result |-> Err]
    ELSE [self |-> self, held |-> held, requests |-> <<>>, result |-> Ok(0)]

\* Mutant: the destructor forgets the cookie without a call.
DbusIdleInhibitor_drop_NoCall(self, held, reply) ==
    [self |-> [self EXCEPT !.cookie = None], held |-> held,
     requests |-> <<>>, result |-> Ok(0)]

\* Drop for DbusIdleInhibitor: an error of UnInhibit is logged, the cookie is
\* cleared in both cases.  result is what the destructor saw and logged, it
\* returns nothing.
DbusIdleInhibitor_drop(self, held, reply) ==
    IF self.cookie # None
    THEN [self |-> [self EXCEPT !.cookie = None],
          held |-> IF reply.ok THEN held \ self.cookie ELSE held,
          requests |-> <<Req("UnInhibit", unwrap(self.cookie))>>,
          result |-> IF reply.ok THEN Ok(0) ELSE Err]
    ELSE [self |-> self, held |-> held, requests |-> <<>>, result |-> Ok(0)]

(***************************************************************************)
(* The compositor backend (src/idle_inhibitor/wayland/mod.rs).             *)
(*                                                                         *)
(* An operator works on a record w: w.self is the WaylandIdleInhibitor,    *)
(* w.comp the compositor, w.requests the requests sent so far.  The        *)
(* compositor keeps, for each surface the process created, the output it   *)
(* is on, whether its configure was acknowledged, whether the surface      *)
(* objects are alive and how many idle-inhibitor objects are alive on it.  *)
(* A wl_surface and its layer surface share one id; a new object gets the  *)
(* lowest id that is free, as the client library hands ids out.            *)
(***************************************************************************)
\* The registry names of the outputs the compositor ever announces.
OutputNames == {1, 2, 3}

\* Output::new
Output_new == [surface |-> None]

\* The compositor with no object of the process on it.
Compositor_new == [surfaces |-> EmptyMap]

\* Surface::new for the output output_id, stored in the output as line 172
\* does: create_surface, get_layer_surface, set_anchor, commit.
Surface_new(w, output_id) ==
    LET live == DOMAIN w.comp.surfaces
        id == CHOOSE i \in 1..(Cardinality(live) + 1) :
                  i \notin live /\ \A j \in 1..(i - 1) : j \in live
    IN  [self |-> [w.self EXCEPT !.outputs[output_id].surface =
                       Some([wlr_layer_surface |-> id, idle_inhibitor |-> None])],
         comp |-> [surfaces |-> map_insert(w.comp.surfaces, id,
                                    [output |-> output_id, configured |-> FALSE,
                                     alive |-> TRUE, inhibitors |-> 0])],
         requests |-> Append(w.requests, Req("get_layer_surface", id))]

\* Surface::set_inhibit_idle on the surface of output output_id; dropping
\* the SurfaceIdleInhibitor destroys the inhibitor object.
Surface_set_inhibit_idle(w, output_id, inhibit_idle) ==
    LET surface == unwrap(w.self.outputs[output_id].surface)
        id == surface.wlr_layer_surface
    IN  IF inhibit_idle
        THEN IF surface.idle_inhibitor = None
             THEN [self |-> [w.self EXCEPT !.outputs[output_id].surface =
                                 Some([surface EXCEPT !.idle_inhibitor = Some(id)])],
                   comp |-> [w.comp EXCEPT !.surfaces[id].inhibitors = @ + 1],
                   requests |-> Append(w.requests, Req("create_inhibitor", id))]
             ELSE w
        ELSE IF surface.idle_inhibitor # None
        THEN [self |-> [w.self EXCEPT !.outputs[output_id].surface =
                            Some([surface EXCEPT !.idle_inhibitor = None])],
              comp |-> [w.comp EXCEPT !.surfaces[id].inhibitors = @ - 1],
              requests |-> Append(w.requests, Req("inhibitor.destroy", id))]
        ELSE w

\* Drop for Surface, then the drop of its field idle_inhibitor (Drop for
\* SurfaceIdleInhibitor): the layer surface, the surface and the inhibitor
\* are destroyed and the compositor forgets them.
Surface_drop(w, surface) ==
    LET id == surface.wlr_layer_surface
    IN  [self |-> w.self,
         comp |-> [w.comp EXCEPT !.surfaces = map_remove(@, id)],
         requests |-> w.requests
                      \o <<Req("layer_surface.destroy", id), Req("surface.destroy", id)>>
                      \o (IF surface.idle_inhibitor # None
                          THEN <<Req("inhibitor.destroy", id)>> ELSE <<>>)]

\* The loop of init_missing_surfaces over the outputs without a surface.
RECURSIVE init_surfaces(_, _)
init_surfaces(w, missing_surface_outputs) ==
    IF missing_surface_outputs = {} THEN w
    ELSE LET output_id == CHOOSE k \in missing_surface_outputs : TRUE
         IN  init_surfaces(
                 Surface_set_inhibit_idle(Surface_new(w, output_id), output_id,
                                          w.self.is_idle_inhibited),
                 missing_surface_outputs \ {output_id})

\* Mutant: a new surface gets no inhibitor until the next inhibit().
init_missing_surfaces_NoInhibitor(w) ==
    LET RECURSIVE bare(_, _)
        bare(v, ids) ==
            IF ids = {} THEN v
            ELSE LET k == CHOOSE k \in ids : TRUE
                 IN  bare(Surface_new(v, k), ids \ {k})
    IN  bare(w, { k \in DOMAIN w.self.outputs : w.self.outputs[k].surface = None })

\* WaylandIdleInhibitor::init_missing_surfaces
init_missing_surfaces(w) ==
    init_surfaces(w, { k \in DOMAIN w.self.outputs :
                          w.self.outputs[k].surface = None })

\* WaylandIdleInhibitor::find_wlr_layer_surface_output
find_wlr_layer_surface_output(self, id) ==
    { k \in DOMAIN self.outputs :
        /\ self.outputs[k].surface # None
        /\ unwrap(self.outputs[k].surface).wlr_layer_surface = id }

\* The loop of set_inhibit_idle over the surfaces.
RECURSIVE set_surfaces(_, _, _)
set_surfaces(w, surfaces, inhibit_idle) ==
    IF surfaces = {} THEN w
    ELSE LET output_id == CHOOSE k \in surfaces : TRUE
         IN  set_surfaces(Surface_set_inhibit_idle(w, output_id, inhibit_idle),
                          surfaces \ {output_id}, inhibit_idle)

\* WaylandIdleInhibitor::set_inhibit_idle; inhibit() and uninhibit() call it
\* with true and false.
set_inhibit_idle(w, inhibit_idle) ==
    set_surfaces([w EXCEPT !.self.is_idle_inhibited = inhibit_idle],
                 { k \in DOMAIN w.self.outputs : w.self.outputs[k].surface # None },
                 inhibit_idle)

\* The drop of the outputs in ids: Drop for Output, then Drop for the Surface
\* of each that has one.
RECURSIVE drop_outputs(_, _)
drop_outputs(w, ids) ==
    IF ids = {} THEN w
    ELSE LET k == CHOOSE k \in ids : TRUE
             output == w.self.outputs[k]
             v == IF output.surface # None
                  THEN Surface_drop(w, unwrap(output.surface)) ELSE w
         IN  drop_outputs([v EXCEPT !.self.outputs = map_remove(@, k)], ids \ {k})

\* WaylandIdleInhibitor::new with the outputs of the global list: a surface
\* for each, and the roundtrip dispatches their Configure events.
WaylandIdleInhibitor_new(globals) ==
    LET w == init_missing_surfaces(
                 [self |-> [outputs |-> [k \in globals |-> Output_new],
                            is_idle_inhibited |-> FALSE],
                  comp |-> Compositor_new, requests |-> <<>>])
    IN  [w EXCEPT !.comp.surfaces =
             [id \in DOMAIN @ |-> [@[id] EXCEPT !.configured = TRUE]]]

\* DBusServer::new
DBusServer_new == [manual_inhibit |-> FALSE, effective_inhibit |-> FALSE]

\* No call or event of a backend yet.
NoOp == Op("none", None, <<>>, Ok(0))

\* The dry-run backend is the one selected; the others are not constructed.
DryRun_selected ==
    /\ backend = "dry"
    /\ backend_pc = "running"
    /\ dbus_idle_inhibitor = DbusIdleInhibitor_new
    /\ screensaver = {}
    /\ wayland_idle_inhibitor = WaylandIdleInhibitor_new({}).self
    /\ compositor = Compositor_new
    /\ last_op = NoOp
    /\ dbus_server = DBusServer_new

\* InhibitIdleState::new and the empty queue, timer thread and histories.
InhibitIdleState_new ==
    /\ inhibit_idle_timout_callback_guard = None
    /\ pw_inhibit = FALSE
    /\ manual_inhibit = FALSE
    /\ is_idle_inhibited = FALSE
    /\ queue = <<>>
    /\ timers = {}
    /\ next_timer = 1
    /\ cancelled = {}
    /\ trace = <<>>
    /\ emitted = <<>>
    /\ n_sent = 0

Init ==
    /\ media_minimum_duration \in DurationValues
    /\ InhibitIdleState_new
    /\ graph = PWGraph_new(<<>>, <<>>)
    /\ graph_updated = FALSE
    /\ universe = "registry"
    /\ last_call = NoCall
    /\ MessageQueue_new
    /\ idle_inhibitor = DryRunIdleInhibitor_default
    /\ requests = <<>>
    /\ PWThread_new
    /\ DryRun_selected
    /\ graph_plus = PWGraph_new(<<>>, <<>>)

Next ==
    \/ PWSendCandidate
    \/ DBusToggleManual
    \/ TimerFire
    \/ MainCandidate
    \/ MainTimeoutExpired
    \/ MainToggleManual
    \/ MainInhibitIdle

Spec == Init /\ [][Next]_vars

(***************************************************************************)
(* The PipeWire thread: registry and info handlers acting on the graph.    *)
(*                                                                         *)
(* The server announces nodes 1..3, ports 11..15 and links 21, 23, 24; each *)
(* announcement carries the properties of one entry of the object's menu.  *)
(***************************************************************************)
NodeIds == {1, 2, 3}
PortIds == {11, 12, 13, 14, 15}
LinkIds == {21, 23, 24}
Ids == NodeIds \cup PortIds \cup LinkIds

Regex_new(from_start, to_end, lit) ==
    [from_start |-> from_start, to_end |-> to_end, lit |-> lit]

\* node_blacklist = [ { app_name = "^browser$" } ]
BrowserBlacklist ==
    <<[name |-> None, app_name |-> Some(Regex_new(TRUE, TRUE, Str_browser)),
       media_class |-> None, media_role |-> None, media_software |-> None]>>

NodeMenu(id) ==
    IF id = 1 THEN
        { NodeData(Some(Str_Speakers), None, None, None, Some(Str_AudioSink), None, None) }
    ELSE IF id = 2 THEN
        { NodeData(None, Some(Str_mpv), None, None, Some(Str_StreamOutput), None, None),
          NodeData(None, Some(Str_browser), None, None, Some(Str_StreamOutput), None, None) }
    ELSE
        { NodeData(None, Some(Str_mpv), None, None, Some(Str_StreamOutput), None, None) }

PortMenu(id) ==
    IF id = 11 THEN { PortData(None, Some(1), Some("Input"), None) }
    ELSE IF id = 12 THEN { PortData(None, Some(2), Some("Input"), None) }
    ELSE IF id = 13 THEN { PortData(None, Some(3), Some("Output"), None) }
    ELSE IF id = 14 THEN { PortData(None, Some(2), Some("Output"), None) }
    ELSE { PortData(None, Some(1), Some("Output"), None) }

\* The (input_port, output_port) properties of a link.
LinkMenu(id) ==
    IF id = 21 THEN { <<Some(11), Some(14)>> }
    ELSE IF id = 23 THEN { <<Some(11), Some(13)>> }
    ELSE { <<Some(12), Some(13)>>, <<Some(12), Some(15)>> }

\* pw_event_listener.send(PWEvent::GraphUpdated)
send_GraphUpdated == graph_updated' = TRUE

\* The return value of PWGraph::update: a stored field changed.
was_updated(g, id, new_data) == update(g, id, new_data).objects # g.objects

registry_global_node ==
    \E id \in NodeIds : \E data \in NodeMenu(id) :
        /\ id \notin DOMAIN graph.objects
        /\ graph' = insert(graph, id, PWObject_Node(data))
        /\ send_GraphUpdated
        /\ UNCHANGED <<smVars, apiVars, extVars>>

registry_global_port ==
    \E id \in PortIds : \E data \in PortMenu(id) :
        /\ id \notin DOMAIN graph.objects
        /\ graph' = insert(graph, id, PWObject_Port(data))
        /\ send_GraphUpdated
        /\ UNCHANGED <<smVars, apiVars, extVars>>

registry_global_link ==
    \E id \in LinkIds : \E props \in LinkMenu(id) :
        /\ id \notin DOMAIN graph.objects
        /\ graph' = insert(graph, id, PWObject_Link(LinkData(props[1], props[2], Some(FALSE))))
        /\ send_GraphUpdated
        /\ UNCHANGED <<smVars, apiVars, extVars>>

\* The listener lives in the stored proxy, so link_info runs for stored links;
\* the properties repeat the link's ports, the state is present when the
\* change mask has STATE.
link_info ==
    \E id \in LinkIds : \E active \in {None, Some(TRUE), Some(FALSE)} :
        /\ id \in DOMAIN graph.objects
        /\ LET stored == graph.objects[id].data
               new_data == PWObject_Link(LinkData(stored.input_port, stored.output_port, active))
           IN  /\ graph' = update(graph, id, new_data)
               /\ graph_updated' = (graph_updated \/ was_updated(graph, id, new_data))
        /\ UNCHANGED <<smVars, apiVars, extVars>>

registry_global_remove ==
    \E id \in Ids :
        /\ graph' = remove(graph, id)
        /\ send_GraphUpdated
        /\ UNCHANGED <<smVars, apiVars, extVars>>

GraphInit ==
    /\ media_minimum_duration = default_media_minimum_duration
    /\ InhibitIdleState_new
    /\ graph = PWGraph_new(<<>>, BrowserBlacklist)
    /\ graph_updated = FALSE
    /\ universe = "registry"
    /\ last_call = NoCall
    /\ MessageQueue_new
    /\ idle_inhibitor = DryRunIdleInhibitor_default
    /\ requests = <<>>
    /\ PWThread_new
    /\ DryRun_selected
    /\ graph_plus = PWGraph_new(<<>>, <<>>)

GraphNext ==
    \/ registry_global_node
    \/ registry_global_port
    \/ registry_global_link
    \/ link_info
    \/ registry_global_remove

GraphSpec == GraphInit /\ [][GraphNext]_vars

(***************************************************************************)
(* Direct callers of the graph.                                            *)
(*                                                                         *)
(* PWGraph::insert, update and remove are called with any id and payload   *)
(* of the run's universe, stored ids included.  A universe fixes the       *)
(* configuration, the ids and the payloads of a run:                       *)
(*   "node"   one node id under a whitelist on the display name;           *)
(*   "port"   one port id moving between two nodes and two directions;     *)
(*   "link"   one link id moving between ports;                            *)
(*   "query"  a sink, its input port, a link and an upstream node with its *)
(*            output port, under the browser blacklist.                    *)
(***************************************************************************)
Universes == {"node", "port", "link", "query"}

\* sink_whitelist = [ { name = "^Speakers$" } ]
SpeakersWhitelist == <<[name |-> Some(Regex_new(TRUE, TRUE, Str_Speakers))]>>

\* The filter { name = "^mpv$" } and a graph whose whitelist has it as one
\* more entry.
ExtraSinkFilter == [name |-> Some(Regex_new(TRUE, TRUE, Str_mpv))]

with_sink_filter(g, f) == [g EXCEPT !.sink_whitelist = Append(@, f)]

Config(u) ==
    IF u = "node" THEN PWGraph_new(SpeakersWhitelist, <<>>)
    ELSE IF u = "query" THEN PWGraph_new(<<>>, BrowserBlacklist)
    ELSE PWGraph_new(<<>>, <<>>)

\* The ids the calls of a universe name; the last one of "node", "port" and
\* "link" is never inserted.
CallIds(u) ==
    IF u = "filter" THEN {1}
    ELSE IF u = "node" THEN {1, 2}
    ELSE IF u = "port" THEN {11, 12}
    ELSE IF u = "link" THEN {21, 22}
    ELSE {1, 2, 11, 14, 21}

NoNode == NodeData(None, None, None, None, None, None, None)
NoPort == PortData(None, None, None, None)
NoLink == LinkData(None, None, None)

\* The objects insert is called with.
InsertMenu(u, id) ==
    IF u = "node" THEN
        IF id = 1 THEN
            { PWObject_Node(NodeData(Some(Str_Speakers), None, None, None, Some(Str_AudioSink), None, None)),
              PWObject_Node(NodeData(None, None, None, None, Some(Str_AudioSink), None, None)),
              PWObject_Node(NodeData(Some(Str_Speakers), None, None, None, Some(Str_StreamOutput), None, None)),
              PWObject_Node(NodeData(Some(Str_mpv), None, None, None, Some(Str_AudioSink), None, None)),
              PWObject_Port(NoPort) }
        ELSE {}
    ELSE IF u = "port" THEN
        IF id = 11 THEN
            { PWObject_Port(PortData(None, Some(1), Some("Input"), None)),
              PWObject_Port(PortData(None, Some(2), Some("Output"), None)),
              PWObject_Port(PortData(None, Some(1), None, None)) }
        ELSE {}
    ELSE IF u = "link" THEN
        IF id = 21 THEN
            { PWObject_Link(LinkData(Some(11), Some(14), Some(FALSE))),
              PWObject_Link(LinkData(Some(12), Some(14), Some(FALSE))),
              PWObject_Link(LinkData(Some(11), None, None)) }
        ELSE {}
    ELSE
        IF id = 1 THEN
            { PWObject_Node(NodeData(Some(Str_Speakers), None, None, None, Some(Str_AudioSink), None, None)),
              PWObject_Node(NodeData(Some(Str_Speakers), Some(Str_browser), None, None, Some(Str_AudioSink), None, None)) }
        ELSE IF id = 2 THEN
            { PWObject_Node(NodeData(None, Some(Str_mpv), None, None, Some(Str_StreamOutput), None, None)),
              PWObject_Node(NodeData(None, Some(Str_browser), None, None, Some(Str_StreamOutput), None, None)) }
        ELSE IF id = 11 THEN { PWObject_Port(PortData(None, Some(1), Some("Input"), None)) }
        ELSE IF id = 14 THEN { PWObject_Port(PortData(None, Some(2), Some("Output"), None)) }
        ELSE { PWObject_Link(LinkData(Some(11), Some(14), active)) :
                 active \in {None, Some(FALSE), Some(TRUE)} }

\* The deltas update is called with.
UpdateMenu(u) ==
    IF u = "node" THEN
        { PWObject_Node(NoNode),
          PWObject_Node([NoNode EXCEPT !.name = Some(Str_Speakers)]),
          PWObject_Node([NoNode EXCEPT !.media_class = Some(Str_AudioSink)]),
          PWObject_Node([NoNode EXCEPT !.media_class = Some(Str_StreamOutput)]),
          PWObject_Node([NoNode EXCEPT !.name = Some(Str_Speakers),
                                       !.media_class = Some(Str_AudioSink)]),
          PWObject_Port([NoPort EXCEPT !.is_terminal = Some(TRUE)]) }
    ELSE IF u = "port" THEN
        { PWObject_Port(NoPort),
          PWObject_Port([NoPort EXCEPT !.node_id = Some(2)]),
          PWObject_Port([NoPort EXCEPT !.direction = Some("Output")]),
          PWObject_Port([NoPort EXCEPT !.node_id = Some(1), !.direction = Some("Input")]),
          PWObject_Port([NoPort EXCEPT !.node_id = Some(2), !.direction = Some("Input")]),
          PWObject_Port([NoPort EXCEPT !.is_terminal = Some(TRUE)]),
          PWObject_Link([NoLink EXCEPT !.active = Some(TRUE)]) }
    ELSE IF u = "link" THEN
        { PWObject_Link(NoLink),
          PWObject_Link([NoLink EXCEPT !.input_port = Some(12)]),
          PWObject_Link([NoLink EXCEPT !.output_port = Some(13)]),
          PWObject_Link([NoLink EXCEPT !.input_port = Some(11), !.output_port = Some(14)]),
          PWObject_Link([NoLink EXCEPT !.active = Some(TRUE)]),
          PWObject_Link([NoLink EXCEPT !.active = Some(FALSE)]),
          PWObject_Node([NoNode EXCEPT !.media_class = Some(Str_AudioSink)]) }
    ELSE
        { PWObject_Link([NoLink EXCEPT !.active = Some(TRUE)]),
          PWObject_Link([NoLink EXCEPT !.active = Some(FALSE)]) }

call_insert ==
    \E id \in CallIds(universe) : \E obj \in InsertMenu(universe, id) :
        /\ graph' = insert(graph, id, obj)
        /\ graph_plus' = insert(graph_plus, id, obj)
        /\ last_call' = Call("insert", id, obj, graph, None)
        /\ UNCHANGED <<smVars, graph_updated, universe, extVars>>

call_update ==
    \E id \in CallIds(universe) : \E new_data \in UpdateMenu(universe) :
        /\ graph' = update(graph, id, new_data)
        /\ graph_plus' = update(graph_plus, id, new_data)
        /\ last_call' = Call("update", id, new_data, graph,
                             update_returns(graph, id, new_data))
        /\ UNCHANGED <<smVars, graph_updated, universe, extVars>>

call_remove ==
    \E id \in CallIds(universe) :
        /\ graph' = remove(graph, id)
        /\ graph_plus' = remove(graph_plus, id)
        /\ last_call' = Call("remove", id, None, graph, map_get(graph.objects, id))
        /\ UNCHANGED <<smVars, graph_updated, universe, extVars>>

ApiInit ==
    /\ media_minimum_duration = default_media_minimum_duration
    /\ InhibitIdleState_new
    /\ universe \in Universes
    /\ graph = Config(universe)
    /\ graph_updated = FALSE
    /\ last_call = NoCall
    /\ MessageQueue_new
    /\ idle_inhibitor = DryRunIdleInhibitor_default
    /\ requests = <<>>
    /\ PWThread_new
    /\ DryRun_selected
    /\ graph_plus = with_sink_filter(Config(universe), ExtraSinkFilter)

ApiNext ==
    \/ call_insert
    \/ call_update
    \/ call_remove

ApiSpec == ApiInit /\ [][ApiNext]_vars

(***************************************************************************)
(* Direct callers of the filters.                                          *)
(*                                                                         *)
(* A run fixes one NodeFilter (the only entry of the blacklist) and the    *)
(* SinkFilter with the same name field (the only entry of the whitelist);  *)
(* node 1 is inserted with any payload of FilterNodes and the filters'     *)
(* matches is called on the stored payload.                                *)
(***************************************************************************)
\* Every NodeFilter whose fields are absent or the field's pattern.
FilterMenu ==
    [ name           : {None, Some(Regex_new(TRUE, TRUE, Str_Speakers))},
      app_name       : {None, Some(Regex_new(TRUE, TRUE, Str_browser))},
      media_class    : {None, Some(Regex_new(FALSE, FALSE, Str_Sink))},
      media_role     : {None, Some(Regex_new(TRUE, TRUE, Str_Music))},
      media_software : {None, Some(Regex_new(TRUE, FALSE, Str_mpv))} ]

\* The node payloads: every attribute absent, matching or not matching.
FilterNodes ==
    [ name           : {None, Some(Str_Speakers), Some(Str_mpv)},
      description    : {None, Some(Str_Speakers), Some(Str_mpv)},
      nick           : {None, Some(Str_Speakers), Some(Str_mpv)},
      app_name       : {None, Some(Str_browser), Some(Str_mpv)},
      media_class    : {None, Some(Str_AudioSink), Some(Str_StreamOutput)},
      media_role     : {None, Some(Str_Music)},
      media_software : {None, Some(Str_mpv)} ]

call_insert_fresh ==
    \E id \in CallIds(universe) : \E data \in FilterNodes :
        /\ id \notin DOMAIN graph.objects
        /\ graph' = insert(graph, id, PWObject_Node(data))
        /\ last_call' = Call("insert", id, PWObject_Node(data), graph, None)
        /\ UNCHANGED <<smVars, graph_updated, universe, graph_plus, extVars>>

\* NodeFilter::matches(&filter, &node) on a stored node.
call_NodeFilter_matches ==
    \E id \in CallIds(universe) :
        /\ id \in DOMAIN graph.objects
        /\ last_call' = Call("NodeFilter::matches", id, graph.node_blacklist[1], graph,
                             NodeFilter_matches(graph.node_blacklist[1],
                                                graph.objects[id].data))
        /\ UNCHANGED <<smVars, pwVars, universe, graph_plus, extVars>>

\* SinkFilter::matches(&filter, &node) on a stored node.
call_SinkFilter_matches ==
    \E id \in CallIds(universe) :
        /\ id \in DOMAIN graph.objects
        /\ last_call' = Call("SinkFilter::matches", id, graph.sink_whitelist[1], graph,
                             SinkFilter_matches(graph.sink_whitelist[1],
                                                graph.objects[id].data))
        /\ UNCHANGED <<smVars, pwVars, universe, graph_plus, extVars>>

FilterInit ==
    /\ media_minimum_duration = default_media_minimum_duration
    /\ InhibitIdleState_new
    /\ universe = "filter"
    /\ \E f \in FilterMenu : graph = PWGraph_new(<<[name |-> f.name]>>, <<f>>)
    /\ graph_updated = FALSE
    /\ last_call = NoCall
    /\ MessageQueue_new
    /\ idle_inhibitor = DryRunIdleInhibitor_default
    /\ requests = <<>>
    /\ PWThread_new
    /\ DryRun_selected
    /\ graph_plus = graph

FilterNext ==
    \/ call_insert_fresh
    \/ call_NodeFilter_matches
    \/ call_SinkFilter_matches

FilterSpec == FilterInit /\ [][FilterNext]_vars

(***************************************************************************)
(* The message queue between two sending threads and the receiving loop.   *)
(*                                                                         *)
(* The k-th value of sender s is [from |-> s, seq |-> k].  send() is two   *)
(* steps, recv() is two steps; a thread may be preempted between them.     *)
(***************************************************************************)
\* Number of values sender s has handed to the channel.
Sent(s) == Cardinality({ i \in 1..Len(enqueued) : enqueued[i].from = s })

\* What the threads of the queue leave alone.
mqFrame == <<smVars, pwVars, apiVars, backendVars, loopVars, hwVars, busVars>>

\* MessageQueueSender::send, first statement: self.sender.send(payload)?
send_channel(s) ==
    /\ s \in senders
    /\ sender_pc[s] = "idle"
    /\ Sent(s) < MaxSends
    /\ LET payload == [from |-> s, seq |-> Sent(s) + 1]
       IN  /\ channel' = mpsc_send(channel, payload)
           /\ enqueued' = Append(enqueued, payload)
    /\ sender_pc' = [sender_pc EXCEPT ![s] = "write"]
    /\ UNCHANGED <<eventfd, senders, receiver_pc, recv_result, received>>
    /\ UNCHANGED mqFrame

\* MessageQueueSender::send, second statement: self.eventfd.write(1)?
send_eventfd(s) ==
    /\ sender_pc[s] = "write"
    /\ eventfd' = eventfd + 1
    /\ sender_pc' = [sender_pc EXCEPT ![s] = "idle"]
    /\ UNCHANGED <<channel, senders, receiver_pc, recv_result, enqueued, received>>
    /\ UNCHANGED mqFrame

\* A thread drops its MessageQueueSender.
drop_sender(s) ==
    /\ s \in senders
    /\ sender_pc[s] = "idle"
    /\ senders' = senders \ {s}
    /\ UNCHANGED <<channel, eventfd, sender_pc, receiver_pc, recv_result,
                   enqueued, received>>
    /\ UNCHANGED mqFrame

\* Mutant: the eventfd is not a semaphore, a read takes the whole counter.
recv_eventfd_NotSemaphore ==
    /\ receiver_pc = "idle"
    /\ eventfd > 0
    /\ eventfd' = 0
    /\ receiver_pc' = "recv"
    /\ UNCHANGED <<channel, senders, sender_pc, recv_result, enqueued, received>>
    /\ UNCHANGED mqFrame

\* MessageQueueReceiver::recv, first statement: self.eventfd.read()?  The
\* descriptor is blocking and EPOLLIN is reported for a counter above 0, so
\* the read returns, taking 1 off the counter, only when the counter is not 0.
recv_eventfd ==
    /\ receiver_pc = "idle"
    /\ eventfd > 0
    /\ eventfd' = eventfd - 1
    /\ receiver_pc' = "recv"
    /\ UNCHANGED <<channel, senders, sender_pc, recv_result, enqueued, received>>
    /\ UNCHANGED mqFrame

\* MessageQueueReceiver::recv, second statement: Ok(self.receiver.recv()?).
\* The channel's recv returns the oldest value, blocks on an empty channel
\* while a sender lives, and returns an error on an empty channel without
\* senders.
recv_channel ==
    /\ receiver_pc = "recv"
    /\ IF channel # <<>>
       THEN /\ channel' = mpsc_recv(channel).rest
            /\ recv_result' = Some(Ok(mpsc_recv(channel).payload))
            /\ received' = Append(received, mpsc_recv(channel).payload)
       ELSE /\ senders = {}
            /\ recv_result' = Some(Err)
            /\ UNCHANGED <<channel, received>>
    /\ receiver_pc' = "idle"
    /\ UNCHANGED <<eventfd, senders, sender_pc, enqueued>>
    /\ UNCHANGED mqFrame

QueueInit ==
    /\ media_minimum_duration = default_media_minimum_duration
    /\ InhibitIdleState_new
    /\ graph = PWGraph_new(<<>>, <<>>)
    /\ graph_updated = FALSE
    /\ universe = "queue"
    /\ last_call = NoCall
    /\ graph_plus = PWGraph_new(<<>>, <<>>)
    /\ MessageQueue_new
    /\ idle_inhibitor = DryRunIdleInhibitor_default
    /\ requests = <<>>
    /\ PWThread_new
    /\ DryRun_selected

QueueNext ==
    \/ \E s \in Senders : send_channel(s)
    \/ \E s \in Senders : send_eventfd(s)
    \/ \E s \in Senders : drop_sender(s)
    \/ recv_eventfd
    \/ recv_channel

QueueSpec == QueueInit /\ [][QueueNext]_vars

\* The threads go on running: a sender that has handed its value to the
\* channel writes the eventfd, and the receiving loop takes every step it can.
QueueFairSpec ==
    /\ QueueSpec
    /\ \A s \in Senders : WF_vars(send_eventfd(s))
    /\ WF_vars(recv_eventfd)
    /\ WF_vars(recv_channel)

(***************************************************************************)
(* The PipeWire thread with its main loop.                                 *)
(*                                                                         *)
(* The server announces nodes 1 and 2, ports 11 and 14 and link 21, with   *)
(* the properties of GraphSpec.  The handlers send PWEvent::GraphUpdated   *)
(* to the main loop, the main loop sends PWMsg::GraphUpdated back, and the *)
(* thread answers with the candidate.                                      *)
(***************************************************************************)
LoopIds == {1, 2, 11, 14, 21}

\* PipeWire events dispatched in a run.
MaxEvents == 5

\* What the two threads leave alone.
loopFrame == <<smVars, graph_updated, apiVars, mqVars, backendVars, hwVars, busVars>>

\* The objects the registry announces under an id.
LoopMenu(id) ==
    IF id \in NodeIds THEN { PWObject_Node(data) : data \in NodeMenu(id) }
    ELSE IF id \in PortIds THEN { PWObject_Port(data) : data \in PortMenu(id) }
    ELSE { PWObject_Link(LinkData(props[1], props[2], Some(FALSE))) : props \in LinkMenu(id) }

\* pw_event_listener.send(msg).unwrap() in the PipeWire thread: the value
\* joins the main queue; once the main thread has left its loop the receiver
\* may be gone, and then the send fails and unwrap panics.
listener_send(msg) ==
    \/ /\ main_queue' = Append(main_queue, msg)
       /\ worker_pc' = worker_pc
    \/ /\ main_pc \in {"join", "exited"}
       /\ main_queue' = main_queue
       /\ worker_pc' = "panicked"

\* registry_global_node, registry_global_port, registry_global_link
pw_registry_global ==
    \E id \in LoopIds : \E obj \in LoopMenu(id) :
        /\ worker_pc = "run"
        /\ n_events < MaxEvents
        /\ id \notin DOMAIN graph.objects
        /\ graph' = insert(graph, id, obj)
        /\ listener_send(PWEvent_GraphUpdated)
        /\ stale' = TRUE
        /\ n_events' = n_events + 1
        /\ UNCHANGED <<pw_channel, term, main_pc, computed, delivered, loopFrame>>

\* link_info: GraphUpdated is sent when update returns true (the value is the
\* one pipewire_connection/graph.rs returns).
pw_link_info ==
    \E id \in LoopIds \cap LinkIds : \E active \in {None, Some(TRUE), Some(FALSE)} :
        /\ worker_pc = "run"
        /\ n_events < MaxEvents
        /\ id \in DOMAIN graph.objects
        /\ LET stored == graph.objects[id].data
               new_data == PWObject_Link(LinkData(stored.input_port, stored.output_port, active))
           IN  /\ graph' = update(graph, id, new_data)
               /\ IF update_returns(graph, id, new_data)
                  THEN listener_send(PWEvent_GraphUpdated)
                  ELSE UNCHANGED <<main_queue, worker_pc>>
               /\ stale' = (stale \/ update(graph, id, new_data) # graph)
        /\ n_events' = n_events + 1
        /\ UNCHANGED <<pw_channel, term, main_pc, computed, delivered, loopFrame>>

\* registry_global_remove
pw_registry_global_remove ==
    \E id \in LoopIds :
        /\ worker_pc = "run"
        /\ n_events < MaxEvents
        /\ graph' = remove(graph, id)
        /\ listener_send(PWEvent_GraphUpdated)
        /\ stale' = (stale \/ remove(graph, id) # graph)
        /\ n_events' = n_events + 1
        /\ UNCHANGED <<pw_channel, term, main_pc, computed, delivered, loopFrame>>

\* The closure attached to pw_event_queue, PWMsg::GraphUpdated.
worker_GraphUpdated ==
    /\ worker_pc = "run"
    /\ pw_channel # <<>>
    /\ Head(pw_channel) = PWMsg_GraphUpdated
    /\ pw_channel' = Tail(pw_channel)
    /\ \E b \in should_inhibit_idle(graph) :
           /\ listener_send(PWEvent_InhibitIdleState(b))
           /\ computed' = Append(computed, b)
    /\ stale' = FALSE
    /\ UNCHANGED <<graph, term, main_pc, delivered, n_events, loopFrame>>

\* The closure attached to pw_event_queue, PWMsg::Terminate.
worker_Terminate ==
    /\ worker_pc = "run"
    /\ pw_channel # <<>>
    /\ Head(pw_channel) = PWMsg_Terminate
    /\ pw_channel' = Tail(pw_channel)
    /\ worker_pc' = mainloop_quit(worker_pc)
    /\ UNCHANGED <<graph, main_queue, term, main_pc, stale, computed, delivered,
                   n_events, loopFrame>>

\* The signal handler sets the flag; a wait it interrupts is retried from the
\* top of the loop.
signal ==
    /\ ~term
    /\ term' = TRUE
    /\ main_pc' = IF main_pc = "wait" THEN "loop" ELSE main_pc
    /\ UNCHANGED <<graph, pw_channel, main_queue, worker_pc, stale, computed,
                   delivered, n_events, loopFrame>>

\* Top of the loop: the flag is looked at before each wait; when it is set
\* the loop is left and the PipeWire thread is told to terminate.
main_loop ==
    /\ main_pc = "loop"
    /\ IF term
       THEN /\ pw_channel' = Append(pw_channel, PWMsg_Terminate)
            /\ main_pc' = "join"
       ELSE /\ main_pc' = "wait"
            /\ UNCHANGED pw_channel
    /\ UNCHANGED <<graph, main_queue, term, worker_pc, stale, computed, delivered,
                   n_events, loopFrame>>

\* One message of the main queue, PWEvent::GraphUpdated: it is sent back to
\* the PipeWire thread.
main_GraphUpdated ==
    /\ main_pc = "wait"
    /\ main_queue # <<>>
    /\ Head(main_queue) = PWEvent_GraphUpdated
    /\ main_queue' = Tail(main_queue)
    /\ pw_channel' = Append(pw_channel, PWMsg_GraphUpdated)
    /\ main_pc' = "loop"
    /\ UNCHANGED <<graph, term, worker_pc, stale, computed, delivered, n_events,
                   loopFrame>>

\* One message of the main queue, PWEvent::InhibitIdleState: the candidate
\* reaches the main loop.
main_InhibitIdleState ==
    /\ main_pc = "wait"
    /\ main_queue # <<>>
    /\ Head(main_queue).type = "InhibitIdleState"
    /\ main_queue' = Tail(main_queue)
    /\ delivered' = Append(delivered, Head(main_queue).value)
    /\ main_pc' = "loop"
    /\ UNCHANGED <<graph, pw_channel, term, worker_pc, stale, computed, n_events,
                   loopFrame>>

\* PWThread::join returns when pw_thread has ended, by return or by panic.
main_join ==
    /\ main_pc = "join"
    /\ worker_pc # "run"
    /\ main_pc' = "exited"
    /\ UNCHANGED <<graph, pw_channel, main_queue, term, worker_pc, stale, computed,
                   delivered, n_events, loopFrame>>

LoopInit ==
    /\ media_minimum_duration = default_media_minimum_duration
    /\ InhibitIdleState_new
    /\ graph = PWGraph_new(<<>>, BrowserBlacklist)
    /\ graph_updated = FALSE
    /\ universe = "loop"
    /\ last_call = NoCall
    /\ graph_plus = PWGraph_new(<<>>, <<>>)
    /\ MessageQueue_new
    /\ idle_inhibitor = DryRunIdleInhibitor_default
    /\ requests = <<>>
    /\ PWThread_new
    /\ DryRun_selected

LoopNext ==
    \/ pw_registry_global
    \/ pw_link_info
    \/ pw_registry_global_remove
    \/ worker_GraphUpdated
    \/ worker_Terminate
    \/ signal
    \/ main_loop
    \/ main_GraphUpdated
    \/ main_InhibitIdleState
    \/ main_join

LoopSpec == LoopInit /\ [][LoopNext]_vars

\* Both threads go on running: the PipeWire loop dispatches the messages of
\* its channel, the main loop takes its steps.
LoopFairSpec ==
    /\ LoopSpec
    /\ WF_vars(worker_GraphUpdated)
    /\ WF_vars(worker_Terminate)
    /\ WF_vars(main_loop)
    /\ WF_vars(main_GraphUpdated)
    /\ WF_vars(main_InhibitIdleState)
    /\ WF_vars(main_join)

(***************************************************************************)
(* Properties of the inhibit-state machine (checked under Spec)            *)
(***************************************************************************)
Timout == get_media_minimum_duration(media_minimum_duration)
Last(seq) == seq[Len(seq)]

\* Number of rising audio candidates in a handled-input trace: a candidate true
\* whose preceding candidate (if any) was false.
RECURSIVE RisingFrom(_, _, _)
RisingFrom(tr, i, prev) ==
    IF i > Len(tr) THEN 0
    ELSE IF tr[i] = "T" THEN (IF prev THEN 0 ELSE 1) + RisingFrom(tr, i + 1, TRUE)
    ELSE IF tr[i] = "F" THEN RisingFrom(tr, i + 1, FALSE)
    ELSE RisingFrom(tr, i + 1, prev)
Rising(tr) == RisingFrom(tr, 1, FALSE)
Toggles(tr) == Cardinality({i \in 1..Len(tr) : tr[i] = "M"})
TrueEmissions == Cardinality({i \in 1..Len(emitted) : emitted[i].value})

\* C1: after every completed operation of the state machine the stored
\* effective value is_idle_inhibited equals pw_inhibit OR manual_inhibit,
\* with a minimum duration configured or not.
C1_EffectiveIsOr ==
    is_idle_inhibited = (pw_inhibit \/ manual_inhibit)

\* C1 witness: a timer expiry and a manual toggle have both been handled and
\* both signals are on.
C1_Witness ==
    /\ pw_inhibit /\ manual_inhibit /\ is_idle_inhibited
    /\ \E i \in 1..Len(trace) : trace[i] = "X"
    /\ \E i \in 1..Len(trace) : trace[i] = "M"

\* C2 (the claim as stated): handling a TimeoutExpired message of a timer that
\* an audio candidate false cancelled is a no-op: it neither sets the audio
\* inhibit nor emits, whatever has been handled in between.
C2_StaleTimeoutIsNoOp ==
    [][ ( /\ queue # <<>>
          /\ Head(queue).type = "TimeoutExpired"
          /\ Head(queue).timer \in cancelled
          /\ trace' = Append(trace, "X") )
        => (pw_inhibit' = pw_inhibit /\ emitted' = emitted) ]_vars

\* C3: with a minimum duration configured, from the initial state, a candidate
\* true followed by a candidate false (and then only by the expiry message of
\* the cancelled timer, if it was already enqueued) produces no emission.
C3_BlipEmitsNothing ==
    ( /\ is_some(Timout)
      /\ Len(trace) >= 2
      /\ trace[1] = "T"
      /\ trace[2] = "F"
      /\ \A i \in 3..Len(trace) : trace[i] = "X" )
    => emitted = <<>>

\* C3 witness: candidate true, candidate false and the cancelled timer's
\* expiry message have been handled.
C3_Witness ==
    /\ is_some(Timout)
    /\ trace = <<"T", "F", "X">>
    /\ emitted = <<>>

\* C4: with a minimum duration configured, handling a candidate true never
\* emits, and from the initial state candidate true followed by the timer
\* expiry yields exactly one emission, effective=true, made when the expiry
\* is handled.
C4_DebounceFires ==
    is_some(Timout) =>
        /\ \A i \in 1..Len(emitted) :
              emitted[i].cause = "candidate" => trace[emitted[i].at] = "F"
        /\ ( Len(trace) >= 2 /\ trace[1] = "T" /\ trace[2] = "X" ) =>
              /\ Len(emitted) >= 1
              /\ emitted[1] = [value |-> TRUE, cause |-> "timeout",
                               prev |-> FALSE, at |-> 2]
              /\ \A i \in 2..Len(emitted) : emitted[i].at > 2

\* C4 witness: exactly candidate true and then the expiry have been handled.
C4_Witness ==
    /\ is_some(Timout)
    /\ trace = <<"T", "X">>
    /\ Len(emitted) = 1
    /\ pw_inhibit

\* C5: handling a candidate false sets pw_inhibit to false in that step,
\* whatever the timer state, and when manual inhibit is off and the effective
\* value was true it emits effective=false in that same step.
C5_FalseIsImmediate ==
    [][ trace' = Append(trace, "F") =>
          /\ pw_inhibit' = FALSE
          /\ inhibit_idle_timout_callback_guard' = None
          /\ (~manual_inhibit /\ is_idle_inhibited) =>
                /\ is_idle_inhibited' = FALSE
                /\ emitted' = Append(emitted,
                      [value |-> FALSE, cause |-> "candidate",
                       prev |-> TRUE, at |-> Len(trace) + 1]) ]_vars

\* C5 witness: the last handled input is a candidate false and it emitted
\* effective=false, with a minimum duration configured.
C5_Witness ==
    /\ is_some(Timout)
    /\ trace # <<>> /\ Last(trace) = "F"
    /\ emitted # <<>>
    /\ Last(emitted) = [value |-> FALSE, cause |-> "candidate",
                        prev |-> TRUE, at |-> Len(trace)]

\* C6: every handled manual toggle flips manual_inhibit and appends exactly
\* one emission carrying pw_inhibit OR the new manual_inhibit, also when that
\* equals the previous effective value; from the initial state two toggles
\* emit true, then false.
C6_ToggleForcesEmission ==
    /\ [][ trace' = Append(trace, "M") =>
             /\ manual_inhibit' = ~manual_inhibit
             /\ pw_inhibit' = pw_inhibit
             /\ emitted' = Append(emitted,
                   [value |-> (pw_inhibit \/ ~manual_inhibit), cause |-> "manual",
                    prev |-> is_idle_inhibited, at |-> Len(trace) + 1]) ]_vars
    /\ []( (Len(trace) >= 2 /\ trace[1] = "M" /\ trace[2] = "M") =>
             /\ Len(emitted) >= 2
             /\ emitted[1].value = TRUE /\ emitted[1].at = 1
             /\ emitted[2].value = FALSE /\ emitted[2].at = 2 )

\* C6 witness: a toggle was handled while the audio inhibit was on, so its
\* forced emission repeats the previous effective value.
C6_Witness ==
    \E i \in 1..Len(emitted) :
        /\ emitted[i].cause = "manual"
        /\ emitted[i].value = emitted[i].prev
        /\ trace[emitted[i].at] = "M"

\* C7: emissions are edge-triggered: an emission caused by an audio candidate
\* or a timer expiry always differs from the effective value before it, and
\* two consecutive emissions carry the same value only if the second was
\* forced by a manual toggle.
C7_EdgeTriggered ==
    /\ \A i \in 1..Len(emitted) :
          emitted[i].cause # "manual" => emitted[i].value # emitted[i].prev
    /\ \A i \in 2..Len(emitted) :
          emitted[i].value = emitted[i - 1].value => emitted[i].cause = "manual"

\* C7 witness: a candidate emission, a timeout emission and a repeated value
\* forced by a toggle all occur in one run.
C7_Witness ==
    /\ \E i \in 1..Len(emitted) : emitted[i].cause = "candidate"
    /\ \E i \in 1..Len(emitted) : emitted[i].cause = "timeout"
    /\ \E i \in 2..Len(emitted) : emitted[i].value = emitted[i - 1].value

\* C8: the number of effective=true emissions is at most the number of rising
\* audio candidates plus the number of manual toggles handled.
C8_TrueEmissionsBounded ==
    TrueEmissions <= Rising(trace) + Toggles(trace)

\* C8 witness: the bound is met with equality by two rising candidates and a
\* toggle that all emitted true.
C8_Witness ==
    /\ Rising(trace) = 2
    /\ Toggles(trace) >= 1
    /\ TrueEmissions = Rising(trace) + Toggles(trace)

\* C9: without a minimum duration (0 seconds or less configured) a candidate true sets
\* pw_inhibit in the same step and emits effective=true iff the effective value
\* was false; no timer is ever scheduled and no TimeoutExpired is ever sent.
C9_NoDebounceWhenZero ==
    /\ []( media_minimum_duration <= 0 =>
             /\ inhibit_idle_timout_callback_guard = None
             /\ timers = {}
             /\ next_timer = 1
             /\ \A i \in 1..Len(queue) : queue[i].type # "TimeoutExpired"
             /\ \A i \in 1..Len(trace) : trace[i] # "X" )
    /\ [][ (media_minimum_duration <= 0 /\ trace' = Append(trace, "T")) =>
             /\ pw_inhibit'
             /\ is_idle_inhibited'
             /\ emitted' = IF is_idle_inhibited THEN emitted
                           ELSE Append(emitted,
                                  [value |-> TRUE, cause |-> "candidate",
                                   prev |-> FALSE, at |-> Len(trace) + 1]) ]_vars

\* C9 witness: with 0 seconds configured the last handled input is a candidate
\* true and it emitted effective=true.
C9_Witness ==
    /\ media_minimum_duration = 0
    /\ trace # <<>> /\ Last(trace) = "T"
    /\ emitted # <<>>
    /\ Last(emitted).at = Len(trace)
    /\ Last(emitted).value


(***************************************************************************)
(* The active-sink query as a reachability statement                       *)
(***************************************************************************)
\* A stored Node that matches no blacklist filter.
OkNode(g, n) ==
    /\ n \in DOMAIN g.objects
    /\ g.objects[n].kind = "Node"
    /\ ~NodeFilter_matches_any(g.node_blacklist, g.objects[n].data)

\* The input ports the graph records for node n.
InputPorts(g, n) ==
    IF n \in DOMAIN g.node_input_ports THEN g.node_input_ports[n] ELSE {}

\* The nodes one step upstream of n: n's input port p is a stored Port, an
\* active stored Link with a defined output port leads into p, and the output
\* port is a stored Port owned by u.
Upstream(g, n) ==
    { u \in Ids :
        \E p \in InputPorts(g, n) :
            /\ p \in DOMAIN g.objects /\ g.objects[p].kind = "Port"
            /\ p \in DOMAIN g.links_to_port
            /\ \E l \in g.links_to_port[p] :
                /\ l \in DOMAIN g.objects /\ g.objects[l].kind = "Link"
                /\ g.objects[l].data.active = Some(TRUE)
                /\ \E q \in Ids :
                    /\ g.objects[l].data.output_port = Some(q)
                    /\ q \in DOMAIN g.objects /\ g.objects[q].kind = "Port"
                    /\ g.objects[q].data.node_id = Some(u) }

\* The nodes from which a path of OkNodes leads to an OkNode without input
\* ports: the least set closed under "is such a leaf" and "has an upstream
\* node in the set".
RECURSIVE HasPath(_, _)
HasPath(g, found) ==
    LET more == { n \in Ids :
                    /\ OkNode(g, n)
                    /\ \/ InputPorts(g, n) = {}
                       \/ Upstream(g, n) \cap found # {} }
    IN  IF more \subseteq found THEN found ELSE HasPath(g, found \cup more)

\* C10: in every graph state, whatever the iteration order of the hash sets,
\* get_active_sinks() returns exactly the sinks from which a path exists over
\* input ports and active links with a defined output port to a node without
\* input ports, every node on it being a stored Node that is not blacklisted;
\* the shared visited set never hides such a path.
C10_ActiveSinksAreReachable ==
    /\ get_active_sinks(graph) # {}
    /\ \A active \in get_active_sinks(graph) :
           active = { s \in graph.sinks : s \in HasPath(graph, {}) }

\* A sink is active although one traversal that finds it so first walked into
\* a node from which no path exists: the failed branch left its nodes in the
\* visited set and the search went on to the branch that succeeds.
C10_Witness ==
    \E s \in graph.sinks :
        /\ s \in HasPath(graph, {})
        /\ \E o \in check_node_active(graph, s, {}) :
               /\ o.result
               /\ \E n \in o.visited : OkNode(graph, n) /\ n \notin HasPath(graph, {})


\* C11: removing an object never makes a sink active: after remove(x) every
\* set get_active_sinks() can return is a subset of every set it could return
\* before.  (Violated: removing the only input port of a node turns the node
\* into a leaf.)
C11_RemoveOnlyDegrades ==
    [][ \A x \in Ids :
            graph' = remove(graph, x) =>
                \A before \in get_active_sinks(graph) :
                    \A after \in get_active_sinks(graph') : after \subseteq before ]_vars

\* The stored Links that lead into a recorded input port of node n.
InboundLinks(g, n) ==
    { l \in DOMAIN g.objects :
        /\ g.objects[l].kind = "Link"
        /\ g.objects[l].data.input_port # None
        /\ g.objects[l].data.input_port \subseteq InputPorts(g, n) }

\* C12: a sink with at least one input port whose inbound links are all
\* inactive or without the active field is in no result of get_active_sinks().
C12_InactiveLinksDoNotCount ==
    \A s \in graph.sinks :
        ( /\ InputPorts(graph, s) # {}
          /\ \A l \in InboundLinks(graph, s) :
                 graph.objects[l].data.active # Some(TRUE) )
        => \A active \in get_active_sinks(graph) : s \notin active

\* C12 witness: a sink is not active although a link without the active field
\* leads into its input port from the output port of a stored node that is a
\* leaf and not blacklisted.
C12_Witness ==
    /\ universe = "query"
    /\ \E s \in graph.sinks : \E l \in InboundLinks(graph, s) :
        /\ OkNode(graph, s)
        /\ \A k \in InboundLinks(graph, s) : graph.objects[k].data.active = None
        /\ \E q \in DOMAIN graph.objects :
            /\ graph.objects[l].data.output_port = Some(q)
            /\ graph.objects[q].kind = "Port"
            /\ \E u \in DOMAIN graph.objects :
                /\ graph.objects[q].data.node_id = Some(u)
                /\ OkNode(graph, u)
                /\ InputPorts(graph, u) = {}
        /\ \A active \in get_active_sinks(graph) : s \notin active

\* A stored Node that matches a blacklist filter.
Blacklisted(g, n) ==
    /\ n \in DOMAIN g.objects
    /\ g.objects[n].kind = "Node"
    /\ NodeFilter_matches_any(g.node_blacklist, g.objects[n].data)

\* The nodes reachable upstream from the nodes of found, over any number of
\* active links, whatever the nodes on the way are.
RECURSIVE UpstreamClosure(_, _)
UpstreamClosure(g, found) ==
    LET more == UNION { Upstream(g, n) : n \in found }
    IN  IF more \subseteq found THEN found ELSE UpstreamClosure(g, found \cup more)

\* The producers upstream of n: the reachable nodes that have no input port.
Producers(g, n) ==
    { u \in UpstreamClosure(g, {n}) : InputPorts(g, u) = {} }

\* C13: a sink that matches the blacklist is in no result of
\* get_active_sinks(), and neither is a sink with an input port all of whose
\* upstream producers match the blacklist.
C13_BlacklistedNeverActivates ==
    \A s \in graph.sinks :
        ( \/ Blacklisted(graph, s)
          \/ /\ InputPorts(graph, s) # {}
             /\ \A u \in Producers(graph, s) : Blacklisted(graph, u) )
        => \A active \in get_active_sinks(graph) : s \notin active

\* C13 witness: a sink that is not blacklisted itself has an active link from
\* a blacklisted producer, and is not active.
C13_Witness ==
    \E s \in graph.sinks :
        /\ OkNode(graph, s)
        /\ InputPorts(graph, s) # {}
        /\ Producers(graph, s) # {}
        /\ \A u \in Producers(graph, s) : Blacklisted(graph, u)
        /\ \A active \in get_active_sinks(graph) : s \notin active

\* The sink rule applied to what is stored now: a stored Node whose merged
\* media_class contains "Sink" and whose merged attributes pass the whitelist.
IsSinkNow(g, id) ==
    /\ id \in DOMAIN g.objects
    /\ g.objects[id].kind = "Node"
    /\ is_some(g.objects[id].data.media_class)
    /\ is_sink(g, unwrap(g.objects[id].data.media_class), g.objects[id].data)

\* C14: after any sequence of insert, update and remove calls an id is in the
\* sinks set iff it is a stored Node that is a sink by its current attributes.
\* (Violated: update tests the whitelist on the delta, only when the delta
\* carries a media_class, and insert over a stored id leaves the old entry.)
C14_SinksMatchNodes ==
    \A id \in CallIds(universe) \cup graph.sinks :
        id \in graph.sinks <=> IsSinkNow(graph, id)

\* The set an index holds for a key, empty when the key is missing.
IndexOf(index, key) == IF key \in DOMAIN index THEN index[key] ELSE {}

\* Every id the calls or the indexes of the graph mention.
MentionedIds(g) ==
    UNION { CallIds(u) : u \in Universes } \cup {12, 13}
        \cup DOMAIN g.objects
        \cup DOMAIN g.links_to_port \cup DOMAIN g.links_from_port
        \cup DOMAIN g.node_input_ports \cup DOMAIN g.node_output_ports
        \cup UNION { g.links_to_port[k] : k \in DOMAIN g.links_to_port }
        \cup UNION { g.links_from_port[k] : k \in DOMAIN g.links_from_port }
        \cup UNION { g.node_input_ports[k] : k \in DOMAIN g.node_input_ports }
        \cup UNION { g.node_output_ports[k] : k \in DOMAIN g.node_output_ports }

StoredLink(g, l) == l \in DOMAIN g.objects /\ g.objects[l].kind = "Link"
StoredPort(g, q) == q \in DOMAIN g.objects /\ g.objects[q].kind = "Port"

\* The four indexes hold exactly what the stored objects of g imply.
IndexesMatchObjects(g) ==
    \A x \in MentionedIds(g) : \A k \in MentionedIds(g) :
        /\ x \in IndexOf(g.links_to_port, k)
               <=> (StoredLink(g, x) /\ g.objects[x].data.input_port = Some(k))
        /\ x \in IndexOf(g.links_from_port, k)
               <=> (StoredLink(g, x) /\ g.objects[x].data.output_port = Some(k))
        /\ x \in IndexOf(g.node_input_ports, k)
               <=> (/\ StoredPort(g, x)
                    /\ g.objects[x].data.node_id = Some(k)
                    /\ g.objects[x].data.direction = Some("Input"))
        /\ x \in IndexOf(g.node_output_ports, k)
               <=> (/\ StoredPort(g, x)
                    /\ g.objects[x].data.node_id = Some(k)
                    /\ g.objects[x].data.direction = Some("Output"))

\* An insert on an id that is already stored (the id conflict of C16).
IsConflictingInsert(call) ==
    call.op = "insert" /\ call.id \in DOMAIN call.before.objects

\* C15: the four secondary indexes hold exactly what the stored objects imply
\* after every insert, update and remove call made on a graph where they did,
\* also after an update whose delta carries only one of node_id and direction;
\* an insert on a stored id is left to C16.  (Violated: such a delta is merged
\* into the port while the index entry stays where it was.)
C15_IndexesMatchObjects ==
    ( /\ last_call.op # "none"
      /\ ~IsConflictingInsert(last_call)
      /\ IndexesMatchObjects(last_call.before) )
    => IndexesMatchObjects(graph)

\* C16: insert on an id that is already stored does not replace the stored
\* object and leaves no stale index entry of it behind (insert returns
\* nothing, so a conflict cannot be reported to the caller).  (Violated: the
\* object is overwritten and the entries of the earlier one stay.)
C16_InsertDoesNotReplace ==
    IsConflictingInsert(last_call) =>
        /\ graph.objects[last_call.id] = last_call.before.objects[last_call.id]
        /\ IndexesMatchObjects(last_call.before) => IndexesMatchObjects(graph)

\* C17: update returns true iff a stored field of the object differs after
\* the call from its value before; a delta whose present fields all equal the
\* stored values returns false.  (Violated: a delta that repeats some of the
\* stored fields and leaves the others out returns true.)
C17_UpdateReturnsChanged ==
    last_call.op = "update" =>
        (last_call.returned <=> graph.objects # last_call.before.objects)

\* The calls of update that must fail: the id is not stored, the stored
\* object is of another kind than the delta, or every field of the delta is
\* empty.
IsFailingUpdate(call) ==
    /\ call.op = "update"
    /\ \/ call.id \notin DOMAIN call.before.objects
       \/ call.before.objects[call.id].kind # call.arg.kind
       \/ is_empty(call.arg)

\* C18: an update of an id that is not stored, of an object of another kind,
\* or with an all-empty delta returns false and leaves the primary map, the
\* sinks set and the four indexes as they were.
C18_FailedUpdateChangesNothing ==
    IsFailingUpdate(last_call) =>
        /\ last_call.returned = FALSE
        /\ graph = last_call.before

\* C18 witness: a non-empty delta of another kind was applied to a stored
\* object, returned false and left the graph as it was.
C18_Witness ==
    /\ last_call.op = "update"
    /\ last_call.id \in DOMAIN last_call.before.objects
    /\ last_call.before.objects[last_call.id].kind # last_call.arg.kind
    /\ ~is_empty(last_call.arg)
    /\ last_call.returned = FALSE
    /\ graph = last_call.before

\* An update that reaches the merge: the id is stored with the delta's kind.
IsApplicableUpdate(call) ==
    /\ call.op = "update"
    /\ call.id \in DOMAIN call.before.objects
    /\ call.before.objects[call.id].kind = call.arg.kind

\* C19: update changes only the fields present in the delta: every field the
\* delta leaves out keeps its value, the object keeps its kind, and no other
\* stored object is changed, added or dropped.
C19_UpdateFrame ==
    last_call.op = "update" =>
        /\ DOMAIN graph.objects = DOMAIN last_call.before.objects
        /\ \A o \in DOMAIN graph.objects :
               o # last_call.id => graph.objects[o] = last_call.before.objects[o]
        /\ IsApplicableUpdate(last_call) =>
               /\ graph.objects[last_call.id].kind = last_call.arg.kind
               /\ \A f \in DOMAIN last_call.arg.data :
                      last_call.arg.data[f] = None =>
                          graph.objects[last_call.id].data[f]
                              = last_call.before.objects[last_call.id].data[f]

\* C19 witness: among other stored objects, a delta changed a field of an
\* object and a field it left out kept the value it had.
C19_Witness ==
    /\ IsApplicableUpdate(last_call)
    /\ graph.objects[last_call.id] # last_call.before.objects[last_call.id]
    /\ \E f \in DOMAIN last_call.arg.data :
           /\ last_call.arg.data[f] = None
           /\ graph.objects[last_call.id].data[f] # None
    /\ \E o \in DOMAIN graph.objects : o # last_call.id

\* Index after equals index before with x taken out of every entry.
IndexWithout(after, before, x) ==
    \A k \in DOMAIN after \cup DOMAIN before :
        IndexOf(after, k) = IndexOf(before, k) \ {x}

\* What remove(x) is to leave of graph b in graph a: x is gone from the
\* primary map, from sinks and from every index entry, the rest is as it was.
RemovedExactly(a, b, x) ==
    /\ a.objects = map_remove(b.objects, x)
    /\ a.sinks = b.sinks \ {x}
    /\ IndexWithout(a.links_to_port, b.links_to_port, x)
    /\ IndexWithout(a.links_from_port, b.links_from_port, x)
    /\ IndexWithout(a.node_input_ports, b.node_input_ports, x)
    /\ IndexWithout(a.node_output_ports, b.node_output_ports, x)
    /\ a.sink_whitelist = b.sink_whitelist
    /\ a.node_blacklist = b.node_blacklist

\* C20: remove(id) of a stored id returns the object and leaves the graph
\* without it: not in the primary map, not in sinks, in no index entry, and
\* nothing else changed; remove of an id that is not stored changes nothing.
\* (Violated: remove looks for the index entries under the stored fields, so
\* entries that an update or a second insert left elsewhere stay.)
C20_RemoveFrame ==
    last_call.op = "remove" =>
        IF last_call.id \in DOMAIN last_call.before.objects
        THEN /\ last_call.returned = Some(last_call.before.objects[last_call.id])
             /\ RemovedExactly(graph, last_call.before, last_call.id)
             /\ \A k \in MentionedIds(graph) :
                    /\ last_call.id \notin IndexOf(graph.links_to_port, k)
                    /\ last_call.id \notin IndexOf(graph.links_from_port, k)
                    /\ last_call.id \notin IndexOf(graph.node_input_ports, k)
                    /\ last_call.id \notin IndexOf(graph.node_output_ports, k)
        ELSE /\ last_call.returned = None
             /\ graph = last_call.before

\* Applying the last call once more to the graph it left.
AppliedAgain ==
    CASE last_call.op = "update" -> update(graph, last_call.id, last_call.arg)
      [] last_call.op = "remove" -> remove(graph, last_call.id)
      [] OTHER -> graph

\* C21: update and remove are idempotent for identical arguments: the same
\* update delta applied a second time leaves the graph as the first
\* application left it and returns false; a second remove of the same id
\* leaves the graph as the first left it.  (Violated: the second update
\* returns true whenever the delta names only some of the stored fields.)
C21_MutationsIdempotent ==
    /\ last_call.op \in {"update", "remove"} => AppliedAgain = graph
    /\ last_call.op = "update" =>
           ~update_returns(graph, last_call.id, last_call.arg)

\* The ids of a trail are pairwise different.
NoRepeat(trail) ==
    \A i, j \in 1..Len(trail) : trail[i] = trail[j] => i = j

\* Nodes u and n lie on a cycle of active links.
OnCycle(g, u, n) == u # n /\ u \in Upstream(g, n) /\ n \in Upstream(g, u)

\* C22: get_active_sinks() terminates on every graph, graphs with cycles of
\* active links included: every traversal started from a sink ends with a
\* result, and within it check_node_active is entered at most once for each
\* node, the nodes entered being exactly the visited set.
C22_TraversalTerminates ==
    /\ get_active_sinks(graph) # {}
    /\ \A sink \in graph.sinks :
           /\ check_node_active(graph, sink, {}) # {}
           /\ \A o \in check_node_active(graph, sink, {}) :
                  /\ NoRepeat(o.trail)
                  /\ { o.trail[i] : i \in 1..Len(o.trail) } = o.visited
                  /\ o.trail[1] = sink

\* A sink and an upstream node feed each other through active links, a
\* traversal from the sink entered both and a third node, and came back
\* without a producer.
C22_Witness ==
    \E sink \in graph.sinks : \E u \in NodeIds :
        /\ OnCycle(graph, u, sink)
        /\ \E o \in check_node_active(graph, sink, {}) :
               /\ ~o.result
               /\ Len(o.trail) = 3
               /\ u \in o.visited

(***************************************************************************)
(* Properties of the filters (checked under FilterSpec)                    *)
(***************************************************************************)
\* The display name: the first of description, nick and name that is present,
\* absent when none is.
DisplayName(node) ==
    LET candidates == <<node.description, node.nick, node.name>>
        present == { i \in 1..3 : candidates[i] # None }
    IN  IF present = {} THEN None
        ELSE candidates[CHOOSE i \in present : \A j \in present : i <= j]

\* The node attribute a filter field is matched against.
Attribute(node, field) ==
    IF field = "name" THEN DisplayName(node) ELSE node[field]

\* For every field the filter defines the node has the attribute and the
\* field's regex matches it.
EveryDefinedFieldMatches(filter, node) ==
    \A field \in DOMAIN filter :
        filter[field] # None =>
            /\ Attribute(node, field) # None
            /\ is_match(unwrap(filter[field]), unwrap(Attribute(node, field)))

\* C23: a filter matches a node iff for every field the filter defines the
\* node has the attribute and the regex matches it; an undefined field is
\* vacuously true, a defined field against an absent attribute is false, and
\* the name field is matched against the display name.
C23_FilterMatchesIff ==
    last_call.op \in {"NodeFilter::matches", "SinkFilter::matches"} =>
        (last_call.returned <=>
            EveryDefinedFieldMatches(last_call.arg,
                                     last_call.before.objects[last_call.id].data))

\* A NodeFilter that defines only the name field was matched against a node
\* without description, nick and name and with every other attribute, and
\* did not match.
C23_Witness ==
    /\ last_call.op = "NodeFilter::matches"
    /\ ~last_call.returned
    /\ last_call.arg.name # None
    /\ \A field \in DOMAIN last_call.arg \ {"name"} : last_call.arg[field] = None
    /\ LET node == last_call.before.objects[last_call.id].data
       IN  /\ DisplayName(node) = None
           /\ \A field \in DOMAIN last_call.arg \ {"name"} : node[field] # None

(***************************************************************************)
(* Filter lists: one more entry (checked under ApiSpec)                    *)
(***************************************************************************)
\* C24 as stated: adding a filter to the sink whitelist never enlarges the
\* sink set: after every sequence of calls the sinks under the whitelist
\* with one more filter are among the sinks under the whitelist.  (Violated:
\* a non-empty whitelist admits the nodes that any of its filters matches.)
C24_WhitelistNeverEnlarges ==
    graph_plus.sinks \subseteq graph.sinks

\* C24, amended: one more filter on the empty whitelist never enlarges the
\* sink set, and one more filter on a non-empty whitelist never shrinks it.
C24_WhitelistMonotone ==
    /\ graph.sink_whitelist = <<>> => graph_plus.sinks \subseteq graph.sinks
    /\ graph.sink_whitelist # <<>> => graph.sinks \subseteq graph_plus.sinks

\* Under the whitelist ^Speakers$ a stored node is a sink only with the extra
\* filter ^mpv$.
C24_Witness ==
    /\ graph.sink_whitelist # <<>>
    /\ \E id \in DOMAIN graph.objects :
           /\ id \in graph_plus.sinks
           /\ id \notin graph.sinks
           /\ SinkFilter_matches(ExtraSinkFilter, graph.objects[id].data)

\* The node filters { app_name = "^mpv$" }, { name = "^Speakers$" } and { }.
NoFilter ==
    [name |-> None, app_name |-> None, media_class |-> None,
     media_role |-> None, media_software |-> None]

ExtraNodeFilters ==
    { [NoFilter EXCEPT !.app_name = Some(Regex_new(TRUE, TRUE, Str_mpv))],
      [NoFilter EXCEPT !.name = Some(Regex_new(TRUE, TRUE, Str_Speakers))],
      NoFilter }

with_node_filter(g, f) == [g EXCEPT !.node_blacklist = Append(@, f)]

\* C25: adding a filter to the node blacklist never enlarges
\* get_active_sinks(): for every graph and every extra filter, whatever the
\* iteration orders, the active sinks under the longer blacklist are among the
\* active sinks under the blacklist.
C25_BlacklistNeverEnlarges ==
    \A f \in ExtraNodeFilters :
        \A more \in get_active_sinks(with_node_filter(graph, f)) :
            \A active \in get_active_sinks(graph) : more \subseteq active

\* A sink is active under the browser blacklist through a producer that the
\* extra filter ^mpv$ matches, and not active under the longer blacklist.
C25_Witness ==
    /\ graph.node_blacklist # <<>>
    /\ \E f \in ExtraNodeFilters : \E s \in graph.sinks :
           /\ \A active \in get_active_sinks(graph) : s \in active
           /\ \A more \in get_active_sinks(with_node_filter(graph, f)) : s \notin more
           /\ ~NodeFilter_matches(f, graph.objects[s].data)
           /\ \E n \in Upstream(graph, s) :
                  /\ n \in DOMAIN graph.objects
                  /\ NodeFilter_matches(f, graph.objects[n].data)

(***************************************************************************)
(* Properties of the message queue (checked under QueueSpec)               *)
(***************************************************************************)
\* The values of sender s in a sequence, in order.
From(seq, s) == SelectSeq(seq, LAMBDA payload : payload.from = s)

\* C26: the message queue delivers every sent value exactly once and
\* unchanged, in FIFO order: the values received followed by the values still
\* in the channel are the values in the order the channel took them, the
\* values of one sender are received in the order it sent them, and when no
\* send is in progress, the counter is 0 and the receiver is between calls,
\* every value sent has been received.
C26_FifoExactlyOnce ==
    /\ received \o channel = enqueued
    /\ \A s \in Senders : \A i \in 1..Len(From(received, s)) :
           From(received, s)[i] = [from |-> s, seq |-> i]
    /\ (/\ \A s \in Senders : sender_pc[s] = "idle"
        /\ eventfd = 0
        /\ receiver_pc = "idle") => received = enqueued

\* The receiver got all four values, a value of one sender between two
\* values of the other.
C26_Witness ==
    /\ Len(received) = 2 * MaxSends
    /\ received[1].from = received[3].from
    /\ received[2].from # received[1].from

\* C27: when every sender has been dropped, recv() surfaces an error to the
\* event loop instead of blocking forever or never being invoked: once no
\* sender is left, a recv() that returns the error follows.  (Violated: with
\* the counter at 0 the eventfd is never readable, and the channel's recv,
\* the only statement that can report the disconnection, is not reached.)
C27_DisconnectSurfaces ==
    (senders = {}) ~> (recv_result = Some(Err))

(***************************************************************************)
(* The backend behind the main queue (checked under Spec)                  *)
(***************************************************************************)
\* C29: the messages of the main queue are processed one at a time in queue
\* order, so the backend gets its inhibit and uninhibit requests in the order
\* of the state machine's emissions; and whenever the main queue is drained
\* and no timer is pending, the backend is inhibited iff pw_inhibit or
\* manual_inhibit holds.
C29_BackendFollowsEmissions ==
    /\ Len(requests) <= Len(emitted)
    /\ \A i \in 1..Len(requests) : requests[i] = emitted[i].value
    /\ (queue = <<>> /\ timers = {}) =>
           (idle_inhibitor.is_idle_inhibited <=> (pw_inhibit \/ manual_inhibit))

\* The queue is drained, no timer is pending, and the backend, inhibited,
\* released and inhibited again, is inhibited.
C29_Witness ==
    /\ queue = <<>>
    /\ timers = {}
    /\ idle_inhibitor.is_idle_inhibited
    /\ Len(requests) >= 3
    /\ \E i \in 1..Len(requests) : ~requests[i]

(***************************************************************************)
(* The candidates of the PipeWire thread (checked under LoopSpec)          *)
(***************************************************************************)
\* Both channels are empty and the PipeWire thread runs: every token queued
\* so far has been processed.
Quiescent == pw_channel = <<>> /\ main_queue = <<>> /\ worker_pc = "run"

\* Whether get_active_sinks() returns a set that is not empty, for each set
\* it can return.
HasActiveSink(g) == { active # {} : active \in get_active_sinks(g) }

\* C28: a candidate computed for a graph-updated token equals
\* (get_active_sinks() is non-empty) for the graph of that moment, the
\* candidates reach the main loop in the order they were computed, and once
\* the graph no longer changes and every queued token is processed the last
\* candidate delivered says whether the graph has an active sink.
C28_LastCandidateIsCurrent ==
    /\ (computed # <<>> /\ ~stale) => HasActiveSink(graph) = {Last(computed)}
    /\ Len(delivered) <= Len(computed)
    /\ \A i \in 1..Len(delivered) : delivered[i] = computed[i]
    /\ Quiescent =>
           IF delivered = <<>> THEN graph = PWGraph_new(<<>>, BrowserBlacklist)
           ELSE HasActiveSink(graph) = {Last(delivered)}

\* Every token is processed, the main loop got a candidate true and later a
\* candidate false, and the graph has sinks but no active sink.
C28_Witness ==
    /\ Quiescent
    /\ Len(delivered) >= 2
    /\ ~Last(delivered)
    /\ \E i \in 1..Len(delivered) : delivered[i]
    /\ graph.sinks # {}

hwFrame == <<smVars, pwVars, apiVars, mqVars, requests, loopVars, busVars>>

\* The backend as the selected flavor holds it.
Backend ==
    CASE backend = "dry" -> idle_inhibitor
      [] backend = "dbus" -> dbus_idle_inhibitor
      [] backend = "wayland" -> wayland_idle_inhibitor

\* What the screensaver service can answer: a cookie it does not hold, or an
\* error.
Replies == { Ok(c) : c \in Cookies \ screensaver } \cup {Err}

\* The compositor backend, the compositor and no request sent yet.
World == [self |-> wayland_idle_inhibitor, comp |-> compositor, requests |-> <<>>]

\* The state after a step of the compositor backend that gave w.
wayland_step(name, w) ==
    /\ wayland_idle_inhibitor' = w.self
    /\ compositor' = w.comp
    /\ last_op' = Op(name, wayland_idle_inhibitor, w.requests, Ok(0))
    /\ UNCHANGED <<backend, backend_pc, dbus_idle_inhibitor, screensaver, idle_inhibitor>>
    /\ UNCHANGED hwFrame

\* The state after a call of the screensaver backend that gave r.
dbus_step(name, r, pc) ==
    /\ dbus_idle_inhibitor' = r.self
    /\ screensaver' = r.held
    /\ last_op' = Op(name, dbus_idle_inhibitor, r.requests, r.result)
    /\ backend_pc' = pc
    /\ UNCHANGED <<backend, wayland_idle_inhibitor, compositor, idle_inhibitor>>
    /\ UNCHANGED hwFrame

\* The state after a call of the dry-run backend that gave self.
dry_step(name, self, pc) ==
    /\ idle_inhibitor' = self
    /\ last_op' = Op(name, idle_inhibitor, <<>>, Ok(0))
    /\ backend_pc' = pc
    /\ UNCHANGED <<backend, dbus_idle_inhibitor, screensaver,
                   wayland_idle_inhibitor, compositor>>
    /\ UNCHANGED hwFrame

\* The main loop calls IdleInhibitor::inhibit on the backend.
IdleInhibitor_inhibit ==
    /\ backend_pc = "running"
    /\ \/ /\ backend = "dry"
          /\ dry_step("inhibit", inhibit(idle_inhibitor), "running")
       \/ /\ backend = "dbus"
          /\ \E reply \in Replies :
               LET r == DbusIdleInhibitor_inhibit(dbus_idle_inhibitor, screensaver, reply)
               IN  dbus_step("inhibit", r, IF r.result.ok THEN "running" ELSE "failed")
       \/ /\ backend = "wayland"
          /\ wayland_step("inhibit", set_inhibit_idle(World, TRUE))

\* The main loop calls IdleInhibitor::uninhibit on the backend.
IdleInhibitor_uninhibit ==
    /\ backend_pc = "running"
    /\ \/ /\ backend = "dry"
          /\ dry_step("uninhibit", uninhibit(idle_inhibitor), "running")
       \/ /\ backend = "dbus"
          /\ \E reply \in {Ok(0), Err} :
               LET r == DbusIdleInhibitor_uninhibit(dbus_idle_inhibitor, screensaver, reply)
               IN  dbus_step("uninhibit", r, IF r.result.ok THEN "running" ELSE "failed")
       \/ /\ backend = "wayland"
          /\ wayland_step("uninhibit", set_inhibit_idle(World, FALSE))

\* The backend is dropped: at the end of main, or when an error ends it.
\* Drop for WaylandIdleInhibitor destroys the bound globals, then the field
\* outputs is dropped.
IdleInhibitor_drop ==
    /\ backend_pc \in {"running", "failed"}
    /\ \/ /\ backend = "dry"
          /\ dry_step("drop", idle_inhibitor, "dropped")
       \/ /\ backend = "dbus"
          /\ \E reply \in {Ok(0), Err} :
               dbus_step("drop",
                         DbusIdleInhibitor_drop(dbus_idle_inhibitor, screensaver, reply),
                         "dropped")
       \/ /\ backend = "wayland"
          /\ LET w == drop_outputs(
                          [World EXCEPT !.requests =
                              <<Req("idle_inhibit_manager.destroy", 0),
                                Req("shm.release", 0),
                                Req("layer_shell.destroy", 0)>>],
                          DOMAIN wayland_idle_inhibitor.outputs)
             IN  /\ wayland_idle_inhibitor' = w.self
                 /\ compositor' = w.comp
                 /\ last_op' = Op("drop", wayland_idle_inhibitor, w.requests, Ok(0))
                 /\ backend_pc' = "dropped"
                 /\ UNCHANGED <<backend, dbus_idle_inhibitor, screensaver, idle_inhibitor>>
                 /\ UNCHANGED hwFrame

\* Dispatch<ZwlrLayerSurfaceV1>::event, Configure of the layer surface id:
\* the configure is acknowledged, then a buffer is attached unless the
\* shared-memory file cannot be made (shm is false), which is only logged.
layer_surface_Configure(id, shm) ==
    /\ backend = "wayland"
    /\ backend_pc = "running"
    /\ id \in DOMAIN compositor.surfaces
    /\ IF find_wlr_layer_surface_output(wayland_idle_inhibitor, id) = None
       THEN wayland_step("Configure", World)
       ELSE wayland_step("Configure",
                [World EXCEPT !.comp.surfaces[id].configured = TRUE,
                              !.requests = <<Req("ack_configure", id)>>
                                  \o (IF shm THEN <<Req("attach", id)>> ELSE <<>>)])

\* Dispatch<ZwlrLayerSurfaceV1>::event, Closed of the layer surface id:
\* output.surface = None drops the Surface.
layer_surface_Closed(id) ==
    /\ backend = "wayland"
    /\ backend_pc = "running"
    /\ id \in DOMAIN compositor.surfaces
    /\ LET found == find_wlr_layer_surface_output(wayland_idle_inhibitor, id)
       IN  IF found = None
           THEN wayland_step("Closed", World)
           ELSE LET output_id == unwrap(found)
                    surface == unwrap(wayland_idle_inhibitor.outputs[output_id].surface)
                IN  wayland_step("Closed",
                        Surface_drop([World EXCEPT !.self.outputs[output_id].surface = None],
                                     surface))

\* Dispatch<WlRegistry>::event, Global of an output with the name name.  The
\* compositor gives a new global a name no live global has.
registry_Global(name) ==
    /\ backend = "wayland"
    /\ backend_pc = "running"
    /\ name \notin DOMAIN wayland_idle_inhibitor.outputs
    /\ wayland_step("Global",
           init_missing_surfaces(
               [World EXCEPT !.self.outputs = map_insert(@, name, Output_new)]))

\* Dispatch<WlRegistry>::event, GlobalRemove of the name name.
registry_GlobalRemove(name) ==
    /\ backend = "wayland"
    /\ backend_pc = "running"
    /\ IF name \in DOMAIN wayland_idle_inhibitor.outputs
       THEN wayland_step("GlobalRemove", drop_outputs(World, {name}))
       ELSE wayland_step("GlobalRemove", World)

BackendInit ==
    /\ media_minimum_duration = default_media_minimum_duration
    /\ InhibitIdleState_new
    /\ graph = PWGraph_new(<<>>, <<>>)
    /\ graph_updated = FALSE
    /\ universe = "backend"
    /\ last_call = NoCall
    /\ graph_plus = PWGraph_new(<<>>, <<>>)
    /\ MessageQueue_new
    /\ requests = <<>>
    /\ PWThread_new
    /\ backend \in {"dry", "dbus", "wayland"}
    /\ backend_pc = "running"
    /\ idle_inhibitor = DryRunIdleInhibitor_default
    /\ dbus_idle_inhibitor = DbusIdleInhibitor_new
    /\ screensaver = {}
    /\ \E globals \in SUBSET OutputNames :
          /\ wayland_idle_inhibitor =
                 WaylandIdleInhibitor_new(IF backend = "wayland" THEN globals ELSE {}).self
          /\ compositor =
                 WaylandIdleInhibitor_new(IF backend = "wayland" THEN globals ELSE {}).comp
    /\ last_op = NoOp
    /\ dbus_server = DBusServer_new

BackendNext ==
    \/ IdleInhibitor_inhibit
    \/ IdleInhibitor_uninhibit
    \/ IdleInhibitor_drop
    \/ \E id \in 1..Cardinality(OutputNames), shm \in BOOLEAN : layer_surface_Configure(id, shm)
    \/ \E id \in 1..Cardinality(OutputNames) : layer_surface_Closed(id)
    \/ \E name \in OutputNames : registry_Global(name)
    \/ \E name \in OutputNames : registry_GlobalRemove(name)

BackendSpec == BackendInit /\ [][BackendNext]_vars

(***************************************************************************)
(* Properties of the backends (checked under BackendSpec)                  *)
(***************************************************************************)
\* The backend b of the selected flavor holds an inhibition.
Inhibited(b) ==
    CASE backend = "dry" -> b.is_idle_inhibited
      [] backend = "dbus" -> b.cookie # None
      [] backend = "wayland" -> b.is_idle_inhibited

\* The last step was the call name on a backend that was inhibited (was) or
\* was not.
Called(name, was) ==
    /\ last_op.op = name
    /\ Inhibited(last_op.before) = was

\* C31: for each backend, inhibit() on an inhibited backend and uninhibit()
\* on a backend that is not inhibited send no request and leave the backend
\* as it was; the screensaver service never holds two cookies of the process
\* and no surface ever carries two idle-inhibitors.
C31_CallsAreIdempotent ==
    /\ (Called("inhibit", TRUE) \/ Called("uninhibit", FALSE)) =>
           /\ last_op.requests = <<>>
           /\ last_op.result = Ok(0)
           /\ Backend = last_op.before
    /\ Cardinality(screensaver) <= 1
    /\ \A id \in DOMAIN compositor.surfaces : compositor.surfaces[id].inhibitors <= 1

\* C31 witness: inhibit() was called on the compositor backend while it was
\* inhibited and held a surface with its inhibitor.
C31_Witness ==
    /\ backend = "wayland"
    /\ Called("inhibit", TRUE)
    /\ \E k \in DOMAIN wayland_idle_inhibitor.outputs :
          /\ wayland_idle_inhibitor.outputs[k].surface # None
          /\ unwrap(wayland_idle_inhibitor.outputs[k].surface).idle_inhibitor # None

\* C32: a call of the screensaver backend whose bus call fails returns the
\* error, which ends the main loop, and leaves the backend as it was: after
\* a failed Inhibit no cookie is stored and the service holds none, after a
\* failed UnInhibit the cookie is kept and the service still holds it.  At
\* all times before the teardown the stored cookie is the one the service
\* holds.
C32_FailedCallKeepsState ==
    (backend = "dbus" /\ backend_pc # "dropped") =>
        /\ screensaver = dbus_idle_inhibitor.cookie
        /\ (backend_pc = "failed") = (last_op.result = Err)
        /\ last_op.result = Err =>
              /\ dbus_idle_inhibitor = last_op.before
              /\ last_op.op = "inhibit" =>
                    (dbus_idle_inhibitor.cookie = None /\ screensaver = {})
              /\ last_op.op = "uninhibit" =>
                    (dbus_idle_inhibitor.cookie # None /\ screensaver # {})

\* C32 witness: UnInhibit failed while a cookie was held.
C32_Witness ==
    /\ backend = "dbus"
    /\ last_op.op = "uninhibit"
    /\ last_op.result = Err
    /\ last_op.requests # <<>>
    /\ dbus_idle_inhibitor.cookie # None

\* The number of times the request r is in the sequence sent.
Times(sent, r) == Cardinality({ i \in 1..Len(sent) : sent[i] = r })

\* The surfaces the compositor backend b holds.
SurfacesOf(b) ==
    { unwrap(b.outputs[k].surface) :
        k \in { o \in DOMAIN b.outputs : b.outputs[o].surface # None } }

MsgManualInhibit(b) == [type |-> "ManualInhibit", value |-> b, timer |-> 0]

\* What a call on the bus object leaves alone.
busFrame == <<media_minimum_duration, inhibit_idle_timout_callback_guard,
              pw_inhibit, manual_inhibit, is_idle_inhibited, timers, next_timer,
              cancelled, trace, emitted, pwVars, apiVars, mqVars, backendVars,
              loopVars, backend, backend_pc, dbus_idle_inhibitor, screensaver,
              wayland_idle_inhibitor, compositor>>

\* Mutant: the toggled value is sent but not stored in the bus object.
DBusServer_toggle_manual_inhibit_NotStored ==
    /\ n_sent < MaxInputs
    /\ queue' = send(queue, MsgManualInhibit(~dbus_server.manual_inhibit))
    /\ last_op' = Op("toggle_manual_inhibit", dbus_server, <<>>, Ok(n_sent))
    /\ n_sent' = n_sent + 1
    /\ UNCHANGED dbus_server
    /\ UNCHANGED busFrame

\* DBusServer::toggle_manual_inhibit
DBusServer_toggle_manual_inhibit ==
    /\ n_sent < MaxInputs
    /\ LET new_val == ~dbus_server.manual_inhibit
       IN  /\ dbus_server' = [dbus_server EXCEPT !.manual_inhibit = new_val]
           /\ queue' = send(queue, MsgManualInhibit(new_val))
    /\ last_op' = Op("toggle_manual_inhibit", dbus_server, <<>>, Ok(n_sent))
    /\ n_sent' = n_sent + 1
    /\ UNCHANGED busFrame

\* DBusServer::set_manual_inhibit, the setter of the property.
DBusServer_set_manual_inhibit(value) ==
    /\ n_sent < MaxInputs
    /\ IF dbus_server.manual_inhibit # value
       THEN /\ dbus_server' = [dbus_server EXCEPT !.manual_inhibit = value]
            /\ queue' = send(queue, MsgManualInhibit(value))
       ELSE UNCHANGED <<dbus_server, queue>>
    /\ last_op' = Op("set_manual_inhibit", dbus_server, <<>>, Ok(n_sent))
    /\ n_sent' = n_sent + 1
    /\ UNCHANGED busFrame

\* The main loop hands the value of a ManualInhibit message to the state
\* machine.
MainManualInhibit ==
    /\ queue # <<>>
    /\ Head(queue).type = "ManualInhibit"
    /\ Commit(set_manual_inhibit(Self, Head(queue).value), "M", "manual")
    /\ UNCHANGED cancelled

BusInit ==
    /\ media_minimum_duration \in DurationValues
    /\ InhibitIdleState_new
    /\ graph = PWGraph_new(<<>>, <<>>)
    /\ graph_updated = FALSE
    /\ universe = "bus"
    /\ last_call = NoCall
    /\ graph_plus = PWGraph_new(<<>>, <<>>)
    /\ MessageQueue_new
    /\ idle_inhibitor = DryRunIdleInhibitor_default
    /\ requests = <<>>
    /\ PWThread_new
    /\ DryRun_selected

BusNext ==
    \/ PWSendCandidate
    \/ DBusServer_toggle_manual_inhibit
    \/ \E value \in BOOLEAN : DBusServer_set_manual_inhibit(value)
    \/ TimerFire
    \/ MainCandidate
    \/ MainTimeoutExpired
    \/ MainManualInhibit
    \/ MainInhibitIdle

BusSpec == BusInit /\ [][BusNext]_vars

(***************************************************************************)
(* Properties of the bus control object (checked under BusSpec)            *)
(***************************************************************************)
\* The ManualInhibit messages waiting in the main queue, oldest first.
PendingManual == SelectSeq(queue, LAMBDA msg : msg.type = "ManualInhibit")

\* The manual value the state machine has once the queue is processed.
ManualAfterDrain ==
    IF PendingManual = <<>> THEN manual_inhibit
    ELSE PendingManual[Len(PendingManual)].value

\* C34: every toggle_manual_inhibit call flips the manual property of the
\* bus object and appends exactly one manual message, carrying the new
\* value, to the main queue; whatever the interleaving of bus calls and
\* main-loop steps, the property of the bus object is the value the state
\* machine has after the messages still queued, so the two are equal
\* whenever no manual message is queued.
C34_ManualStaysInSync ==
    /\ [](ManualAfterDrain = dbus_server.manual_inhibit)
    /\ [][(last_op' # last_op /\ last_op'.op = "toggle_manual_inhibit") =>
             /\ dbus_server'.manual_inhibit = ~dbus_server.manual_inhibit
             /\ queue' = Append(queue, MsgManualInhibit(dbus_server'.manual_inhibit))]_vars

\* C34 witness: the last bus call toggled manual off, the main loop has
\* handled two manual messages and none is queued, the state machine and the
\* bus object agree, and an audio timer is pending.
C34_Witness ==
    /\ last_op.op = "toggle_manual_inhibit"
    /\ last_op.before.manual_inhibit
    /\ PendingManual = <<>>
    /\ Len(SelectSeq(trace, LAMBDA i : i = "M")) = 2
    /\ manual_inhibit = dbus_server.manual_inhibit
    /\ inhibit_idle_timout_callback_guard # None

\* C35: in the compositor backend a surface carries an idle-inhibitor object
\* only if its configure event was received and acknowledged, also when the
\* surface was created for an output announced while the backend was
\* inhibited.
C35_InhibitorAfterConfigure ==
    \A id \in DOMAIN compositor.surfaces :
        compositor.surfaces[id].inhibitors > 0 => compositor.surfaces[id].configured

\* The layer surfaces the compositor holds for the output k.
LayerSurfacesOn(k) ==
    { id \in DOMAIN compositor.surfaces :
        compositor.surfaces[id].alive /\ compositor.surfaces[id].output = k }

\* C36: while the compositor backend lives, whatever outputs were announced
\* or removed and whatever layer surfaces were closed, every output it holds
\* as announced has exactly one layer surface, which is the one the backend
\* stores for it, and the compositor holds no surface for any other output.
C36_OneSurfacePerOutput ==
    (backend = "wayland" /\ backend_pc # "dropped") =>
        /\ \A k \in DOMAIN wayland_idle_inhibitor.outputs :
              /\ Cardinality(LayerSurfacesOn(k)) = 1
              /\ wayland_idle_inhibitor.outputs[k].surface # None
              /\ unwrap(wayland_idle_inhibitor.outputs[k].surface).wlr_layer_surface
                     \in LayerSurfacesOn(k)
        /\ \A id \in DOMAIN compositor.surfaces :
              compositor.surfaces[id].output \in DOMAIN wayland_idle_inhibitor.outputs

\* C37: while the compositor backend lives, after any calls and events,
\* every surface it holds carries an idle-inhibitor exactly when
\* is_idle_inhibited is true, and the compositor holds one inhibitor object
\* for it then and none otherwise; inhibit() and uninhibit() record the flag
\* whether a surface exists or not.
C37_InhibitorsFollowFlag ==
    (backend = "wayland" /\ backend_pc # "dropped") =>
        /\ \A s \in SurfacesOf(wayland_idle_inhibitor) :
              /\ (s.idle_inhibitor # None) = wayland_idle_inhibitor.is_idle_inhibited
              /\ compositor.surfaces[s.wlr_layer_surface].inhibitors =
                     (IF wayland_idle_inhibitor.is_idle_inhibited THEN 1 ELSE 0)
        /\ last_op.op = "inhibit" => wayland_idle_inhibitor.is_idle_inhibited
        /\ last_op.op = "uninhibit" => ~wayland_idle_inhibitor.is_idle_inhibited

\* C37 witness: inhibit() was called with no surface at all, then an output
\* was announced and its new surface carries an inhibitor.
C37_Witness ==
    /\ backend = "wayland"
    /\ last_op.op = "Global"
    /\ last_op.before.is_idle_inhibited
    /\ SurfacesOf(last_op.before) = {}
    /\ \E s \in SurfacesOf(wayland_idle_inhibitor) : s.idle_inhibitor # None

(***************************************************************************)
(* The event counter of the message queue (checked under QueueSpec)        *)
(***************************************************************************)
\* The senders between the two statements of send(): value enqueued, counter
\* not yet incremented.
SendsInProgress == { s \in Senders : sender_pc[s] = "write" }

\* 1 while the receiver is between the two statements of recv(): counter
\* decremented, value not yet dequeued.
RecvInProgress == IF receiver_pc = "recv" THEN 1 ELSE 0

\* C38 as stated: the event counter is at most the number of values in the
\* channel and equals it whenever no send is in progress.
C38_CounterEqualsWhenNoSend ==
    /\ eventfd <= Len(channel)
    /\ SendsInProgress = {} => eventfd = Len(channel)

\* C38: in every state of every interleaving of the senders with the
\* receiver, the event counter is the number of values in the channel less
\* the sends in progress and less the recv in progress, so it is at most the
\* number of values and equals it when neither a send nor a recv is in
\* progress; a recv() that has read the counter finds a value in the channel,
\* and the counter is above 0 whenever a value is in the channel and no send
\* or recv is in progress.
C38_CounterAccounts ==
    /\ eventfd = Len(channel) - Cardinality(SendsInProgress) - RecvInProgress
    /\ eventfd <= Len(channel)
    /\ (SendsInProgress = {} /\ RecvInProgress = 0) => eventfd = Len(channel)
    /\ receiver_pc = "recv" => channel # <<>>
    /\ (channel # <<>> /\ SendsInProgress = {} /\ RecvInProgress = 0) => eventfd > 0

\* C38 witness: one sender is between its two statements while the receiver
\* is between its own, and the channel holds two values.
C38_Witness ==
    /\ SendsInProgress # {}
    /\ receiver_pc = "recv"
    /\ Len(channel) = 2
    /\ eventfd = 0

(***************************************************************************)
(* The debounce timer of the inhibit-state machine (checked under Spec)    *)
(***************************************************************************)
\* The main loop is about to handle a candidate true while a timer is
\* pending or the audio inhibit is already on.
RedundantCandidate ==
    /\ queue # <<>>
    /\ Head(queue) = MsgCandidate(TRUE)
    /\ (inhibit_idle_timout_callback_guard # None \/ pw_inhibit)

\* C39: the guard of a debounce timer is held only while pw_inhibit is
\* false, at most one timer is scheduled and not fired and it is the one
\* whose guard is held; a candidate true handled while a guard is held or
\* while pw_inhibit is true schedules no timer, keeps the held guard and its
\* timer, changes no field of the state machine and emits nothing.
C39_OneTimerOnlyWhileOff ==
    /\ [](/\ inhibit_idle_timout_callback_guard # None => ~pw_inhibit
          /\ Cardinality(timers) <= 1
          /\ timers \subseteq inhibit_idle_timout_callback_guard)
    /\ [][(RedundantCandidate /\ trace' = Append(trace, "T")) =>
             /\ UNCHANGED <<inhibit_idle_timout_callback_guard, timers, next_timer,
                            cancelled, pw_inhibit, manual_inhibit, is_idle_inhibited,
                            emitted>>
             /\ queue' = Tail(queue)]_vars

\* C39 witness: a second candidate true was handled while the timer of the
\* first was pending; the timer is still scheduled and nothing was emitted.
C39_Witness ==
    /\ Len(trace) >= 2
    /\ trace[Len(trace)] = "T"
    /\ trace[Len(trace) - 1] = "T"
    /\ inhibit_idle_timout_callback_guard # None
    /\ timers = inhibit_idle_timout_callback_guard
    /\ ~pw_inhibit
    /\ emitted = <<>>

(***************************************************************************)
(* Insertion in any order: the objects of the "query" universe (sink node  *)
(* 1 with input port 11, node 2 with output port 14, link 21 from 14 to    *)
(* 11) are inserted one by one, each id once, in whatever order.           *)
(*                                                Specification: OrderSpec *)
(***************************************************************************)
\* PWGraph::insert of an object whose id is not stored.
call_insert_new ==
    \E id \in CallIds("query") : \E obj \in InsertMenu("query", id) :
        /\ id \notin DOMAIN graph.objects
        /\ graph' = insert(graph, id, obj)
        /\ last_call' = Call("insert", id, obj, graph, None)
        /\ UNCHANGED <<smVars, graph_updated, universe, graph_plus, extVars>>

OrderInit ==
    /\ media_minimum_duration = default_media_minimum_duration
    /\ InhibitIdleState_new
    /\ universe = "order"
    /\ graph \in {Config("query"), Config("node")}
    /\ graph_updated = FALSE
    /\ last_call = NoCall
    /\ MessageQueue_new
    /\ idle_inhibitor = DryRunIdleInhibitor_default
    /\ requests = <<>>
    /\ PWThread_new
    /\ DryRun_selected
    /\ graph_plus = PWGraph_new(<<>>, <<>>)

OrderNext == call_insert_new

OrderSpec == OrderInit /\ [][OrderNext]_vars

(***************************************************************************)
(* Properties of the insertion order (checked under OrderSpec)             *)
(***************************************************************************)
\* The graph that inserting the objects of the map objects into g in the
\* order of their ids gives: nodes, then ports, then links.
RECURSIVE InsertedByIdOrder(_, _)
InsertedByIdOrder(g, objects) ==
    IF DOMAIN objects = {} THEN g
    ELSE LET id == CHOOSE i \in DOMAIN objects : \A j \in DOMAIN objects : i <= j
         IN  InsertedByIdOrder(insert(g, id, objects[id]), map_remove(objects, id))

\* C40: whatever the order in which objects with distinct ids were inserted,
\* the graph (objects, sinks and the four indexes) is the graph that
\* inserting the same objects in the order of their ids gives, and
\* get_active_sinks() has the same result on both; with sink node 1, its
\* input port, node 2 (not blacklisted), its output port and the active link
\* all inserted, the result is {1} under the empty whitelist.
C40_InsertOrderIrrelevant ==
    LET byId == InsertedByIdOrder(PWGraph_new(graph.sink_whitelist, graph.node_blacklist),
                                  graph.objects)
    IN  /\ graph = byId
        /\ get_active_sinks(graph) = get_active_sinks(byId)
        /\ (/\ DOMAIN graph.objects = {1, 2, 11, 14, 21}
            /\ graph.objects[21].data.active = Some(TRUE)
            /\ ~NodeFilter_matches_any(graph.node_blacklist, graph.objects[1].data)
            /\ ~NodeFilter_matches_any(graph.node_blacklist, graph.objects[2].data))
           => get_active_sinks(graph) = {{1}}

\* C40 witness: the link was inserted before the input port it references,
\* the port came last, and the sink is active.
C40_Witness ==
    /\ last_call.op = "insert"
    /\ last_call.id = 11
    /\ DOMAIN last_call.before.objects = {1, 2, 14, 21}
    /\ get_active_sinks(graph) = {{1}}

====
